---- MODULE Spec2Model ----
(***************************************************************************)
(* Account security, authorization and moderation workflow of the forum    *)
(* application: the login lockout (middleware/auth.js, app.js POST /login), *)
(* the post authorization predicates (middleware/auth.js) and the report /  *)
(* restriction routes (moderation-routes.js).                               *)
(*                                                                         *)
(* Time is counted in minutes since the server started.  Each awaited      *)
(* database call of a handler that a claim interleaves is a step of its    *)
(* own; handlers no claim interleaves are one step.                        *)
(***************************************************************************)
EXTENDS Integers, Sequences, FiniteSets, TLC

----------------------------------------------------------------------------
(* Bounds of the model *)

MaxMinutes == 15
ClockStep == 5
MaxDays == 2
MaxFailedAttempts == 6
MaxReports == 2
MaxRestrictions == 2
MaxLog == 3
MaxPwdDays == 7
MaxHalfDays == 5
MaxPwdLog == 7
MaxCoreLen == 4
MaxRaceRestrictions == 3
MaxRaceLog == 5
MaxResetLog == 4

----------------------------------------------------------------------------
(* Program constants *)

\* JS null / a field that is not set
Null == -1
\* handleFailedLogin: "if (user.failedLoginAttempts >= 5)"
LockThreshold == 5
\* handleFailedLogin: "Date.now() + 15 * 60 * 1000"
LockMinutes == 15
\* handle, case 'restrict_user': "const maxHours = 48" and "|| 48"
HandleMaxHours == 48
\* POST /manager/users/:userId/restrict: "if (hoursNum > 48)"
ManagerMaxHours == 48
\* minutes in an hour (Date.setHours)
HourMinutes == 60
\* minutes in a day
DayMinutes == 24 * HourMinutes
\* updatePasswordHistory: "if (user.passwordHistory.length > 5)" and "slice(-5)"
MaxHistory == 5
\* canChangePassword: "if (daysSinceChange < 1)"
MinPasswordAgeDays == 1
MinPasswordLength == 8
ResetTokenMinutes == 15
MaxPasswordLength == 128

Roles == {"user", "manager", "administrator"}
Tags == {"Food", "Coffee", "Travel", "Baking"}

\* seedUsers: the sample accounts
UserIds == {"admin", "moderator_food", "john_doe", "jane_smith"}
\* an id no account has (a deleted or never created account)
GhostUser == "ghost"
\* seedPosts: the Food and the Travel post of john_doe
PostIds == {"post1", "post3"}
\* an id no post has
GhostPost == "nopost"

LoginProcs == {"l1", "l2"}
ReportProcs == {"r1", "r2"}

----------------------------------------------------------------------------
VARIABLES
    now,           \* the clock, in minutes
    users,         \* User collection: role and managedTags of every account
    cred,          \* User collection: the lockout fields of every account
    posts,         \* Post collection
    reports,       \* Report collection, in insertion order
    restrictions,  \* UserRestriction collection, in insertion order
    postModerations, \* PostModeration collection (as a set of records)
    activityLog,   \* ActivityLog collection, in insertion order
    lpc, luser,    \* POST /login in flight: position and the loaded document
    pwd,           \* User collection: the password fields of the account PwdUser
    rpc, rreq,     \* POST /report/post in flight: position and the request
    race,          \* unban and ban in flight: positions, requests, scan cursor
    resetSession,  \* req.session of the forgot-password flow: token, username, expiry
    authz,         \* the last evaluation of an authorization predicate
    last           \* the request completed by the last step and its response

vars == <<now, users, cred, posts, reports, restrictions, postModerations,
          activityLog, lpc, luser, pwd, resetSession, rpc, rreq, race, authz, last>>

loginVars == <<cred, lpc, luser, pwd, resetSession>>
modVars == <<posts, reports, restrictions, postModerations, rpc, rreq, race>>

----------------------------------------------------------------------------
(* Initial documents *)

SeedUsers ==
    [u \in UserIds |->
        CASE u = "admin" -> [exists |-> TRUE, role |-> "administrator", managedTags |-> {}]
          [] u = "moderator_food" -> [exists |-> TRUE, role |-> "manager", managedTags |-> {"Food", "Coffee", "Baking"}]
          [] OTHER -> [exists |-> TRUE, role |-> "user", managedTags |-> {}]]

SeedPosts ==
    [p \in PostIds |->
        CASE p = "post1" -> [exists |-> TRUE, user |-> "john_doe", postTag |-> "Food",
                             isHidden |-> FALSE, isDeleted |-> FALSE]
          [] OTHER -> [exists |-> TRUE, user |-> "john_doe", postTag |-> "Travel",
                       isHidden |-> FALSE, isDeleted |-> FALSE]]

\* userSchema defaults of the lockout fields
NewCred == [failedLoginAttempts |-> 0, accountLockedUntil |-> Null,
            lastLogin |-> Null, previousLogin |-> Null]

\* the account whose password is changed
PwdUser == "john_doe"

\* bcrypt.hash(password, 10): the hash carries the password and a salt; the
\* salt of the model is the time of hashing
Hash(password, t) == [pw |-> password, salt |-> t]

\* bcrypt.compare(password, hash)
bcryptCompare(password, hash) == hash.pw = password

\* POST /register and seedUsers: password hashed, passwordHistory: [],
\* passwordChangedAt: new Date() (the schema default is Date.now as well)
NewPwd == [password |-> Hash("Passw0rd!a", 0), passwordHistory |-> <<>>,
           passwordChangedAt |-> 0]

NoRequest == [op |-> "none", actor |-> "", target |-> "", action |-> "",
              hours |-> Null, status |-> 0, error |-> "", list |-> <<>>]

NoAuthz == [fn |-> "none", actor |-> "", post |-> "", result |-> FALSE]

\* res.status(s).json({error: e}) / res.send: the response of a request
Response(op, actor, target, action, hours, status, error) ==
    [op |-> op, actor |-> actor, target |-> target, action |-> action,
     hours |-> hours, status |-> status, error |-> error, list |-> <<>>]

\* the response of a request that is refused before it changes anything
Refusal(op, actor, status, error) == Response(op, actor, "", "", Null, status, error)

\* a session that has not passed the security question
NoResetSession == [passwordResetToken |-> "", passwordResetUsername |-> "",
                   passwordResetExpires |-> 0]

\* no unban and no ban in flight
NoRace == [upc |-> "idle", uactor |-> "", utarget |-> "", upos |-> 0, uend |-> 0,
           bpc |-> "idle", bactor |-> "", btarget |-> ""]

\* User.findById / Post.findById: the document, or nothing
UserExists(u) == u \in UserIds /\ users[u].exists
PostExists(p) == p \in PostIds /\ posts[p].exists

----------------------------------------------------------------------------
(* Account lockout: middleware/auth.js and POST /login *)

\* isAccountLocked(user), evaluated at time t
isAccountLocked(user, t) ==
    user.accountLockedUntil # Null /\ user.accountLockedUntil > t

\* Math.ceil((accountLockedUntil - now) / 60000)
minutesLeft(user, t) == user.accountLockedUntil - t

\* handleFailedLogin with the threshold test written ">" (locks on the 6th failure)
FailedLoginDocLate(user, t) ==
    LET n == user.failedLoginAttempts + 1 IN
    IF n > LockThreshold
    THEN [user EXCEPT !.failedLoginAttempts = n, !.accountLockedUntil = t + LockMinutes]
    ELSE [user EXCEPT !.failedLoginAttempts = n]

\* handleFailedLogin(user): the document as modified before user.save()
FailedLoginDoc(user, t) ==
    LET n == user.failedLoginAttempts + 1 IN
    IF n >= LockThreshold
    THEN [user EXCEPT !.failedLoginAttempts = n, !.accountLockedUntil = t + LockMinutes]
    ELSE [user EXCEPT !.failedLoginAttempts = n]

\* handleSuccessfulLogin(user): the document as modified before user.save()
SuccessfulLoginDoc(user, t) ==
    [user EXCEPT !.previousLogin = user.lastLogin, !.lastLogin = t,
                 !.failedLoginAttempts = 0, !.accountLockedUntil = Null]

\* user.save(): Mongoose writes the paths whose value was modified since the
\* document was loaded, each with $set, and leaves the others as stored
Save(stored, loaded, doc) ==
    [f \in DOMAIN stored |-> IF doc[f] # loaded[f] THEN doc[f] ELSE stored[f]]

\* POST /login up to bcrypt.compare: User.findOne, the lock check
LoginRequest(p, username, passwordMatch) ==
    /\ lpc[p] = "idle"
    /\ IF ~UserExists(username)
       THEN /\ last' = Response("login", username, p, "", Null, 400,
                                "Invalid username and/or password")
            /\ UNCHANGED <<lpc, luser>>
       ELSE IF isAccountLocked(cred[username], now)
       THEN /\ last' = Response("login", username, p, "locked",
                                minutesLeft(cred[username], now), 403,
                                "Account is locked")
            /\ UNCHANGED <<lpc, luser>>
       ELSE /\ cred[username].failedLoginAttempts < MaxFailedAttempts
            /\ lpc' = [lpc EXCEPT ![p] = IF passwordMatch THEN "ok" ELSE "failed"]
            /\ luser' = [luser EXCEPT ![p] = [id |-> username, doc |-> cred[username]]]
            /\ last' = NoRequest
    /\ UNCHANGED <<now, users, cred, pwd, resetSession, modVars, activityLog, authz>>

\* POST /login, wrong password: handleFailedLogin and its user.save()
LoginFailed(p) ==
    /\ lpc[p] = "failed"
    /\ LET u == luser[p].id
           doc == FailedLoginDoc(luser[p].doc, now)
       IN /\ cred' = [cred EXCEPT ![u] = Save(cred[u], luser[p].doc, doc)]
          /\ last' = IF doc.failedLoginAttempts >= LockThreshold
                     THEN Response("login", u, p, "failed", Null, 403,
                                   "Account has been locked")
                     ELSE Response("login", u, p, "failed", Null, 400,
                                   "Invalid username and/or password")
    /\ lpc' = [lpc EXCEPT ![p] = "idle"]
    /\ luser' = [luser EXCEPT ![p] = [id |-> "", doc |-> NewCred]]
    /\ UNCHANGED <<now, users, pwd, resetSession, modVars, activityLog, authz>>

\* POST /login, right password: handleSuccessfulLogin and its user.save()
LoginSucceeded(p) ==
    /\ lpc[p] = "ok"
    /\ LET u == luser[p].id
           doc == SuccessfulLoginDoc(luser[p].doc, now)
       IN /\ cred' = [cred EXCEPT ![u] = Save(cred[u], luser[p].doc, doc)]
          /\ last' = Response("login", u, p, "ok", Null, 302, "")
    /\ lpc' = [lpc EXCEPT ![p] = "idle"]
    /\ luser' = [luser EXCEPT ![p] = [id |-> "", doc |-> NewCred]]
    /\ UNCHANGED <<now, users, pwd, resetSession, modVars, activityLog, authz>>

\* time passes (new Date() is read at the steps' instants only)
TickMinute ==
    /\ now < MaxMinutes
    /\ now' = now + ClockStep
    /\ last' = NoRequest
    /\ UNCHANGED <<users, cred, pwd, resetSession, modVars, activityLog, lpc, luser, authz>>

InitCommon ==
    /\ now = 0
    /\ users = SeedUsers
    /\ cred = [u \in UserIds |-> NewCred]
    /\ posts = SeedPosts
    /\ reports = <<>>
    /\ restrictions = <<>>
    /\ postModerations = {}
    /\ activityLog = <<>>
    /\ lpc = [p \in LoginProcs |-> "idle"]
    /\ luser = [p \in LoginProcs |-> [id |-> "", doc |-> NewCred]]
    /\ pwd = NewPwd
    /\ resetSession = NoResetSession
    /\ rpc = [p \in ReportProcs |-> "idle"]
    /\ rreq = [p \in ReportProcs |-> [post |-> "", reportedBy |-> "", reason |-> ""]]
    /\ race = NoRace
    /\ authz = NoAuthz
    /\ last = NoRequest

\* the accounts whose login the lockout specification exercises
LoginNames == {"john_doe", GhostUser}

NextLogin ==
    \/ \E p \in LoginProcs, n \in LoginNames, m \in BOOLEAN : LoginRequest(p, n, m)
    \/ \E p \in LoginProcs : LoginFailed(p)
    \/ \E p \in LoginProcs : LoginSucceeded(p)
    \/ TickMinute

SpecLogin == InitCommon /\ [][NextLogin]_vars

----------------------------------------------------------------------------
(* Reports: moderation-routes.js, POST /report/post/:postId *)

\* reportSchema.reason: the enum
ReportReasons == {"spam", "harassment", "inappropriate", "misinformation", "other"}

\* the duplicate check querying by the wrong field (reportedBy against the
\* post id), which matches nothing
ReportByWrongField(post, reporter) ==
    \E i \in 1..Len(reports) : reports[i].post = post /\ reports[i].reportedBy = post

\* Report.findOne({post, reportedBy}): is there such a document
ReportBy(post, reporter) ==
    \E i \in 1..Len(reports) : reports[i].post = post /\ reports[i].reportedBy = reporter

\* Report.create({post, reportedBy, reason, description}) with the schema's defaults
NewReport(post, reporter, reason) ==
    [post |-> post, reportedBy |-> reporter, reason |-> reason, status |-> "pending",
     handledBy |-> "", adminNotes |-> "", resolvedAt |-> Null]

\* logModerationAction / ActivityLog.create: User.findById(userId) and
\* user.username throw for an account that does not exist, and the catch
\* block drops the entry
LogEntry(userId, action) ==
    IF UserExists(userId)
    THEN Append(activityLog, [user |-> userId, action |-> action])
    ELSE activityLog

\* the log can take another entry (the bound of the model on its length)
LogRoom == Len(activityLog) < MaxLog

\* the log can take another entry (the bound of the concurrent unban and ban)
RaceLogRoom == Len(activityLog) < MaxRaceLog

\* requests of this route that have passed the duplicate check and not yet created
ReportsInFlight == Cardinality({p \in ReportProcs : rpc[p] = "create"})

\* POST /report/post/:postId up to the duplicate check:
\* Post.findById, Report.findOne
ReportCheck(p, reporter, post, reason) ==
    /\ rpc[p] = "idle"
    /\ UserExists(reporter)
    /\ IF ~PostExists(post)
       THEN /\ last' = Response("report", reporter, post, "", Null, 404, "Post not found")
            /\ UNCHANGED <<rpc, rreq>>
       ELSE IF ReportBy(post, reporter)
       THEN /\ last' = Response("report", reporter, post, "", Null, 200,
                                "You have already reported this post")
            /\ UNCHANGED <<rpc, rreq>>
       ELSE /\ Len(reports) + ReportsInFlight < MaxReports
            /\ rpc' = [rpc EXCEPT ![p] = "create"]
            /\ rreq' = [rreq EXCEPT ![p] = [post |-> post, reportedBy |-> reporter,
                                            reason |-> reason]]
            /\ last' = NoRequest
    /\ UNCHANGED <<now, users, loginVars, posts, reports, restrictions,
                   postModerations, activityLog, race, authz>>

\* POST /report/post/:postId from Report.create on: the schema validation of
\* create (an error is answered 500), the log entry, the response
ReportCreate(p) ==
    /\ rpc[p] = "create"
    /\ LET r == rreq[p] IN
       IF r.reason \in ReportReasons
       THEN /\ LogRoom
            /\ reports' = Append(reports, NewReport(r.post, r.reportedBy, r.reason))
            /\ activityLog' = LogEntry(r.reportedBy, "USER_REPORT")
            /\ last' = Response("report", r.reportedBy, r.post, "created", Null, 200, "")
       ELSE /\ last' = Response("report", r.reportedBy, r.post, "", Null, 500,
                                "Failed to submit report")
            /\ UNCHANGED <<reports, activityLog>>
    /\ rpc' = [rpc EXCEPT ![p] = "idle"]
    /\ rreq' = [rreq EXCEPT ![p] = [post |-> "", reportedBy |-> "", reason |-> ""]]
    /\ UNCHANGED <<now, users, loginVars, posts, restrictions, postModerations, race, authz>>

----------------------------------------------------------------------------
(* Restrictions: moderation-routes.js and the activeRestriction query *)

\* UserRestriction.create: the document (isActive: true)
NewRestriction(user, by, type, endDate) ==
    [user |-> user, restrictedBy |-> by, restrictionType |-> type,
     endDate |-> endDate, isActive |-> TRUE]

\* endDate = new Date(); endDate.setHours(endDate.getHours() + h)
HoursFrom(t, h) == t + h * HourMinutes

\* requireRole(roles) after requireAuth: 0 if the request passes, else the status
RequireRole(actor, roles) ==
    IF ~UserExists(actor) THEN 401
    ELSE IF users[actor].role \notin roles THEN 403
    ELSE 0

Moderators == {"manager", "administrator"}

\* the filter without its $or clause on endDate
InEffectNoExpiry(r, u, t) == r.user = u /\ r.isActive

\* the filter of the activeRestriction query: { user, isActive: true,
\* $or: [{endDate: null}, {endDate: {$gte: new Date()}}] }
InEffect(r, u, t) ==
    r.user = u /\ r.isActive /\ (r.endDate = Null \/ r.endDate >= t)

\* the restrictions of u the query matches at time t (indexes)
ActiveRestrictions(u, t) == {i \in 1..Len(restrictions) : InEffect(restrictions[i], u, t)}

\* POST /admin/users/:userId/ban
Ban(actor, target) ==
    LET gate == RequireRole(actor, {"administrator"}) IN
    /\ IF gate # 0
       THEN /\ last' = Refusal("ban", actor, gate, "Access denied")
            /\ UNCHANGED <<restrictions, activityLog>>
       ELSE IF ~UserExists(target)
       THEN /\ last' = Refusal("ban", actor, 404, "User not found")
            /\ UNCHANGED <<restrictions, activityLog>>
       ELSE /\ Len(restrictions) < MaxRestrictions /\ LogRoom
            /\ restrictions' = Append(restrictions,
                                 NewRestriction(target, actor, "permanent_ban", Null))
            /\ activityLog' = LogEntry(actor, "PERMANENT_BAN")
            /\ last' = Response("ban", actor, target, "permanent_ban", Null, 200, "")
    /\ UNCHANGED <<now, users, loginVars, posts, reports, postModerations, rpc, rreq, race, authz>>

\* updateMany with the filter { isActive: true }: the restrictions of every
\* account
DeactivateEveryone(target) ==
    [i \in 1..Len(restrictions) |-> [restrictions[i] EXCEPT !.isActive = FALSE]]

\* UserRestriction.updateOne in the place of updateMany: the first match only
DeactivateFirst(target) ==
    LET match == {i \in 1..Len(restrictions) :
                     restrictions[i].user = target /\ restrictions[i].isActive}
    IN [i \in 1..Len(restrictions) |->
          IF i \in match /\ (\A j \in match : i <= j)
          THEN [restrictions[i] EXCEPT !.isActive = FALSE]
          ELSE restrictions[i]]

\* UserRestriction.updateMany({user, isActive: true}, {isActive: false})
DeactivateAll(target) ==
    [i \in 1..Len(restrictions) |->
       IF restrictions[i].user = target /\ restrictions[i].isActive
       THEN [restrictions[i] EXCEPT !.isActive = FALSE]
       ELSE restrictions[i]]

\* POST /admin/users/:userId/unban
Unban(actor, target) ==
    LET gate == RequireRole(actor, {"administrator"}) IN
    /\ IF gate # 0
       THEN /\ last' = Refusal("unban", actor, gate, "Access denied")
            /\ UNCHANGED <<restrictions, activityLog>>
       ELSE /\ LogRoom
            /\ restrictions' = DeactivateAll(target)
            /\ activityLog' = LogEntry(actor, "UNBAN_USER")
            /\ last' = Response("unban", actor, target, "unbanned", Null, 200, "")
    /\ UNCHANGED <<now, users, loginVars, posts, reports, postModerations, rpc, rreq, race, authz>>

\* POST /manager/users/:userId/restrict (cap = ManagerMaxHours) and
\* POST /admin/users/:userId/restrict (no cap: cap = Null); hours = Null when
\* the body has none
Restrict(op, roles, cap, actor, target, hours) ==
    LET gate == RequireRole(actor, roles) IN
    /\ IF gate # 0
       THEN /\ last' = Refusal(op, actor, gate, "Access denied")
            /\ UNCHANGED <<restrictions, activityLog>>
       ELSE IF hours = Null \/ hours = 0
       THEN /\ last' = Refusal(op, actor, 400, "Hours and reason are required")
            /\ UNCHANGED <<restrictions, activityLog>>
       ELSE IF hours <= 0
       THEN /\ last' = Refusal(op, actor, 400, "Invalid hours value")
            /\ UNCHANGED <<restrictions, activityLog>>
       ELSE IF cap # Null /\ hours > cap
       THEN /\ last' = Refusal(op, actor, 400, "Managers can only restrict users for up to 48 hours")
            /\ UNCHANGED <<restrictions, activityLog>>
       ELSE IF ~UserExists(target)
       THEN /\ last' = Refusal(op, actor, 404, "User not found")
            /\ UNCHANGED <<restrictions, activityLog>>
       ELSE /\ Len(restrictions) < MaxRestrictions /\ LogRoom
            /\ restrictions' = Append(restrictions,
                  NewRestriction(target, actor, "temporary_ban", HoursFrom(now, hours)))
            /\ activityLog' = LogEntry(actor, "RESTRICT_USER")
            /\ last' = Response(op, actor, target, "temporary_ban", hours, 200, "")
    /\ UNCHANGED <<now, users, loginVars, posts, reports, postModerations, rpc, rreq, race, authz>>

ManagerRestrict(actor, target, hours) ==
    Restrict("manager_restrict", Moderators, ManagerMaxHours, actor, target, hours)

AdminRestrict(actor, target, hours) ==
    Restrict("admin_restrict", {"administrator"}, Null, actor, target, hours)

\* UserRestriction.findOne(filter) without a sort: the first matching document
\* in natural order, which for this collection (a collection scan, documents
\* never deleted) is the order of insertion; 0 if none matches
FindOneActive(u, t) ==
    IF ActiveRestrictions(u, t) = {} THEN 0
    ELSE CHOOSE i \in ActiveRestrictions(u, t) :
            \A j \in ActiveRestrictions(u, t) : i <= j

\* GET /admin/users, for one user: activeRestriction, isRestricted and
\* restrictionInfo
ActiveRestrictionQuery(u) ==
    /\ UserExists(u)
    /\ LET i == FindOneActive(u, now) IN
       last' = Response("activeRestriction", "admin", u,
                        IF i = 0 THEN "none" ELSE restrictions[i].restrictionType,
                        Null, 200, "")
    /\ UNCHANGED <<now, users, loginVars, modVars, activityLog, authz>>

----------------------------------------------------------------------------
(* Handling a report: POST /manager/reports/:reportId/handle *)

HandleActions == {"hide_post", "delete_post", "warn_user", "restrict_user", "dismiss"}

\* postSchema: the paths of the two moderation flags that the schema declares
\* (it declares neither isHidden nor isDeleted)
PostSchemaFlags == {}

\* Post.findByIdAndUpdate(id, update): Mongoose casts the update against the
\* schema in strict mode and drops the paths the schema does not declare
PostUpdate(post, flag) ==
    IF flag \in PostSchemaFlags
    THEN [posts EXCEPT ![post] = [f \in DOMAIN posts[post] |->
                                    IF f = flag THEN TRUE ELSE posts[post][f]]]
    ELSE posts

\* the update of handle writing the status only
ReportUpdateStatusOnly(rid, status, by, notes, t) ==
    [reports EXCEPT ![rid] = [@ EXCEPT !.status = status]]

\* Report.findByIdAndUpdate(reportId, {status, handledBy, adminNotes, resolvedAt})
ReportUpdate(rid, status, by, notes, t) ==
    [reports EXCEPT ![rid] = [@ EXCEPT !.status = status, !.handledBy = by,
                                       !.adminNotes = notes, !.resolvedAt = t]]

\* parseInt(hours) || 24: another default
ParseHoursDefault24(hours) == IF hours = Null \/ hours = 0 THEN 24 ELSE hours

\* const restrictHours = parseInt(hours) || 48
ParseHours(hours) == IF hours = Null \/ hours = 0 THEN HandleMaxHours ELSE hours

\* Math.min(restrictHours, maxHours)
Min(a, b) == IF a < b THEN a ELSE b

\* const finalHours = Math.min(restrictHours, maxHours), for every handler role
FinalHours(role, hours) == Min(ParseHours(hours), HandleMaxHours)

\* the tag check of handle with the test of managedTags left out
TagGateOpen(actor, post) == 0

\* the tag check of handle: 0 if the handler may moderate the report's post
TagGate(actor, post) ==
    IF users[actor].role = "manager" /\ posts[post].postTag \notin users[actor].managedTags
    THEN 403
    ELSE 0

\* the switch of handle, for a request that passed every check
HandleSwitch(actor, rid, action, notes, hours) ==
    LET post == reports[rid].post
        author == posts[post].user
        resolved == ReportUpdate(rid, "resolved", actor, notes, now)
    IN
    CASE action = "hide_post" ->
           /\ posts' = PostUpdate(post, "isHidden")
           /\ postModerations' = postModerations \cup
                 {[post |-> post, moderatedBy |-> actor, action |-> "hidden"]}
           /\ reports' = resolved
           /\ activityLog' = LogEntry(actor, "HIDE_POST")
           /\ UNCHANGED restrictions
      [] action = "delete_post" ->
           /\ posts' = PostUpdate(post, "isDeleted")
           /\ postModerations' = postModerations \cup
                 {[post |-> post, moderatedBy |-> actor, action |-> "deleted"]}
           /\ reports' = resolved
           /\ activityLog' = LogEntry(actor, "DELETE_POST")
           /\ UNCHANGED restrictions
      [] action = "warn_user" ->
           /\ Len(restrictions) < MaxRestrictions
           /\ restrictions' = Append(restrictions,
                                NewRestriction(author, actor, "warning", Null))
           /\ reports' = resolved
           /\ activityLog' = LogEntry(actor, "WARN_USER")
           /\ UNCHANGED <<posts, postModerations>>
      [] action = "restrict_user" ->
           /\ Len(restrictions) < MaxRestrictions
           /\ restrictions' = Append(restrictions,
                 NewRestriction(author, actor, "temporary_ban",
                                HoursFrom(now, FinalHours(users[actor].role, hours))))
           /\ reports' = resolved
           /\ activityLog' = LogEntry(actor, "RESTRICT_USER")
           /\ UNCHANGED <<posts, postModerations>>
      [] action = "dismiss" ->
           /\ reports' = ReportUpdate(rid, "dismissed", actor, notes, now)
           /\ activityLog' = LogEntry(actor, "DISMISS_REPORT")
           /\ UNCHANGED <<posts, postModerations, restrictions>>

\* handle's first check testing the action only ("if (!action)")
HandleGateNoNotes(actor, rid, action, notes) ==
    LET gate == RequireRole(actor, Moderators) IN
    IF gate # 0 THEN gate
    ELSE IF action = "" THEN 400
    ELSE IF rid \notin 1..Len(reports) THEN 404
    ELSE IF ~PostExists(reports[rid].post) THEN 404
    ELSE IF users[actor].role = "manager"
            /\ posts[reports[rid].post].postTag \notin users[actor].managedTags THEN 403
    ELSE IF action \notin HandleActions THEN 400
    ELSE 0

\* the checks of handle before its switch: 0 if the request passes them all,
\* else the status it is answered with
HandleGate(actor, rid, action, notes) ==
    LET gate == RequireRole(actor, Moderators) IN
    IF gate # 0 THEN gate
    ELSE IF action = "" \/ notes = "" THEN 400
    ELSE IF rid \notin 1..Len(reports) THEN 404
    ELSE IF ~PostExists(reports[rid].post) THEN 404
    ELSE IF TagGate(actor, reports[rid].post) # 0 THEN 403
    ELSE IF action \notin HandleActions THEN 400
    ELSE 0

\* the error message of a handle request that HandleGate refuses
HandleError(actor, rid, action, notes) ==
    IF RequireRole(actor, Moderators) # 0 THEN "Access denied"
    ELSE IF action = "" \/ notes = "" THEN "Action and notes are required"
    ELSE IF rid \notin 1..Len(reports) THEN "Report not found"
    ELSE IF ~PostExists(reports[rid].post) THEN "Post associated with report not found"
    ELSE IF TagGate(actor, reports[rid].post) # 0
    THEN "You do not have permission to moderate this post"
    ELSE "Invalid action"

\* POST /manager/reports/:reportId/handle
Handle(actor, rid, action, notes, hours) ==
    LET gate == HandleGate(actor, rid, action, notes) IN
    /\ IF gate # 0
       THEN /\ last' = Refusal("handle", actor, gate, HandleError(actor, rid, action, notes))
            /\ UNCHANGED <<posts, reports, restrictions, postModerations, activityLog>>
       ELSE /\ LogRoom
            /\ HandleSwitch(actor, rid, action, notes, hours)
            /\ last' = Response("handle", actor, rid, action, hours, 200, "")
    /\ UNCHANGED <<now, users, loginVars, rpc, rreq, race, authz>>

\* the fields of the escalate update that reportSchema declares (status only:
\* escalationReason, escalatedBy and escalatedAt are not paths of the schema)
Escalated(rid) == [reports EXCEPT ![rid] = [@ EXCEPT !.status = "escalated"]]

\* the checks of escalate: 0 if the request passes them all
EscalateGate(actor, rid, reason) ==
    LET gate == RequireRole(actor, Moderators) IN
    IF gate # 0 THEN gate
    ELSE IF reason = "" THEN 400
    ELSE IF rid \notin 1..Len(reports) THEN 404
    ELSE 0

\* POST /manager/reports/:reportId/escalate
Escalate(actor, rid, reason) ==
    LET gate == EscalateGate(actor, rid, reason) IN
    /\ IF gate # 0
       THEN /\ last' = Refusal("escalate", actor, gate,
                               IF gate = 400 THEN "Reason for escalation is required"
                               ELSE IF gate = 404 THEN "Report not found"
                               ELSE "Access denied")
            /\ UNCHANGED <<reports, activityLog>>
       ELSE /\ LogRoom
            /\ reports' = Escalated(rid)
            /\ activityLog' = LogEntry(actor, "ESCALATE_REPORT")
            /\ last' = Response("escalate", actor, rid, "escalated", Null, 200, "")
    /\ UNCHANGED <<now, users, loginVars, posts, restrictions, postModerations,
                   rpc, rreq, race, authz>>

\* GET /manager/reports with the filter on the manager's tags left out
ReportQueueUnfiltered(actor) == 1..Len(reports)

\* GET /manager/reports: the reports of the answer (their ids).  For a
\* manager: Post.find({postTag: {$in: managedTags}}), then
\* Report.find({post: {$in: managedPostIds}}); for an administrator
\* Report.find({})
ReportQueue(actor) ==
    IF users[actor].role = "manager"
    THEN LET managedPostIds == {q \in PostIds :
                                  posts[q].exists
                                  /\ posts[q].postTag \in users[actor].managedTags}
         IN {i \in 1..Len(reports) : reports[i].post \in managedPostIds}
    ELSE 1..Len(reports)

\* the order of MongoDB on the status strings (ascending, by code point)
StatusRank(status) ==
    CASE status = "dismissed" -> 1
      [] status = "escalated" -> 2
      [] status = "pending" -> 3
      [] status = "resolved" -> 4
      [] OTHER -> 5

\* .sort({status: 1, createdAt: -1}): report i comes before report j.
\* createdAt is Date.now at Report.create, so the later document of the
\* collection is the newer one
SortsBefore(i, j) ==
    \/ StatusRank(reports[i].status) < StatusRank(reports[j].status)
    \/ /\ StatusRank(reports[i].status) = StatusRank(reports[j].status)
       /\ i > j

\* Report.find(query).sort(...): the reports ids in the order of the sort
SortReports(ids) ==
    LET n == Cardinality(ids) IN
    CHOOSE q \in [1..n -> ids] :
        \A a, b \in 1..n : a < b => SortsBefore(q[a], q[b])

\* GET /manager/reports
ListReports(actor) ==
    LET gate == RequireRole(actor, Moderators) IN
    /\ last' = IF gate # 0
               THEN Refusal("list_reports", actor, gate, "Access denied")
               ELSE [Response("list_reports", actor, "", "listed", Null, 200, "")
                       EXCEPT !.list = SortReports(ReportQueue(actor))]
    /\ UNCHANGED <<now, users, loginVars, modVars, activityLog, authz>>

\* a day passes
TickDay ==
    /\ now < MaxDays * DayMinutes
    /\ now' = now + DayMinutes
    /\ last' = NoRequest
    /\ UNCHANGED <<users, loginVars, modVars, activityLog, authz>>

----------------------------------------------------------------------------
(* Post authorization: middleware/auth.js *)

\* canModeratePost(userId, postId)
canModeratePost(userId, postId) ==
    IF ~UserExists(userId) THEN FALSE
    ELSE IF users[userId].role = "administrator" THEN TRUE
    ELSE IF users[userId].role = "user" THEN FALSE
    ELSE IF users[userId].role = "manager"
    THEN IF ~PostExists(postId) THEN FALSE
         ELSE posts[postId].postTag \in users[userId].managedTags
    ELSE FALSE

\* canEditOrDelete with the ownership test left out
canEditOrDeleteNoOwner(userId, resourceOwnerId, postId) ==
    IF ~UserExists(userId) THEN FALSE
    ELSE IF users[userId].role = "administrator" THEN TRUE
    ELSE IF users[userId].role = "manager" /\ postId # ""
    THEN canModeratePost(userId, postId)
    ELSE FALSE

\* canEditOrDelete(userId, resourceOwnerId, postId)
canEditOrDelete(userId, resourceOwnerId, postId) ==
    IF ~UserExists(userId) THEN FALSE
    ELSE IF userId = resourceOwnerId THEN TRUE
    ELSE IF users[userId].role = "administrator" THEN TRUE
    ELSE IF users[userId].role = "manager" /\ postId # ""
    THEN canModeratePost(userId, postId)
    ELSE FALSE

\* PUT /edit-post/:postId and DELETE /delete-post/:postId up to their
\* permission test: Post.findById, canEditOrDelete(session user, post.user, postId)
CheckEditOrDelete(actor, post) ==
    /\ PostExists(post)
    /\ authz' = [fn |-> "canEditOrDelete", actor |-> actor, post |-> post,
                 result |-> canEditOrDelete(actor, posts[post].user, post)]
    /\ last' = NoRequest
    /\ UNCHANGED <<now, users, loginVars, modVars, activityLog>>

\* canAccessPost(user, postId), for an account that exists
canAccessPost(userId, postId) ==
    IF ~PostExists(postId) THEN FALSE
    ELSE IF users[userId].role = "administrator" THEN TRUE
    ELSE IF users[userId].role = "manager"
    THEN posts[postId].postTag \in users[userId].managedTags
    ELSE posts[postId].user = userId

\* checkAccess(req, null, 'POST', postId).allowed for a session of userId
checkAccess(userId, postId) ==
    IF ~UserExists(userId) THEN FALSE
    ELSE canAccessPost(userId, postId)

\* checkPostPermission(user, postId, action)
checkPostPermission(userId, postId, action) ==
    IF ~PostExists(postId) THEN FALSE
    ELSE IF action = "read" THEN TRUE
    ELSE IF action \in {"edit", "delete"}
    THEN IF posts[postId].user = userId THEN TRUE
         ELSE IF users[userId].role = "manager"
         THEN posts[postId].postTag \in users[userId].managedTags
         ELSE FALSE
    ELSE FALSE

\* requirePermission('POST', action) up to its verdict: the account lookup,
\* then checkResourcePermission(user, 'POST', postId, action)
checkResourcePermission(userId, postId, action) ==
    IF ~UserExists(userId) THEN FALSE
    ELSE IF users[userId].role = "administrator" THEN TRUE
    ELSE checkPostPermission(userId, postId, action)

\* an evaluation of canModeratePost(userId, postId)
CheckModeratePost(actor, post) ==
    /\ authz' = [fn |-> "canModeratePost", actor |-> actor, post |-> post,
                 result |-> canModeratePost(actor, post)]
    /\ last' = NoRequest
    /\ UNCHANGED <<now, users, loginVars, modVars, activityLog>>

\* an evaluation of checkAccess on a post
CheckAccess(actor, post) ==
    /\ authz' = [fn |-> "checkAccess", actor |-> actor, post |-> post,
                 result |-> checkAccess(actor, post)]
    /\ last' = NoRequest
    /\ UNCHANGED <<now, users, loginVars, modVars, activityLog>>

\* an evaluation of requirePermission('POST', action)
CheckResourcePermission(actor, post, action) ==
    /\ authz' = [fn |-> "checkResourcePermission", actor |-> actor, post |-> post,
                 result |-> checkResourcePermission(actor, post, action)]
    /\ last' = NoRequest
    /\ UNCHANGED <<now, users, loginVars, modVars, activityLog>>

\* the accounts and posts the predicates are evaluated on: jane_smith in
\* every role with every set of managed tags (or deleted), post1 of every
\* owner under every tag
InitAuthz ==
    /\ now = 0
    /\ \E x \in BOOLEAN, r \in Roles, m \in SUBSET Tags :
          users = [SeedUsers EXCEPT !["jane_smith"] =
                      [exists |-> x, role |-> r, managedTags |-> m]]
    /\ cred = [u \in UserIds |-> NewCred]
    /\ \E o \in UserIds, t \in Tags :
          posts = [SeedPosts EXCEPT !["post1"] = [@ EXCEPT !.user = o, !.postTag = t]]
    /\ reports = <<>>
    /\ restrictions = <<>>
    /\ postModerations = {}
    /\ activityLog = <<>>
    /\ lpc = [p \in LoginProcs |-> "idle"]
    /\ luser = [p \in LoginProcs |-> [id |-> "", doc |-> NewCred]]
    /\ pwd = NewPwd
    /\ resetSession = NoResetSession
    /\ rpc = [p \in ReportProcs |-> "idle"]
    /\ rreq = [p \in ReportProcs |-> [post |-> "", reportedBy |-> "", reason |-> ""]]
    /\ race = NoRace
    /\ authz = NoAuthz
    /\ last = NoRequest

\* req.params.postId: a post, or an id no post has
PostInputs == PostIds \cup {GhostPost}
\* the action of requirePermission
PermissionActions == {"read", "edit", "delete"}

NextAuthz ==
    \/ \E a \in UserIds, p \in PostIds : CheckEditOrDelete(a, p)
    \/ \E a \in UserIds, p \in PostInputs : CheckModeratePost(a, p)
    \/ \E a \in UserIds, p \in PostInputs : CheckAccess(a, p)
    \/ \E a \in UserIds, p \in PostInputs, c \in PermissionActions :
          CheckResourcePermission(a, p, c)

SpecAuthz == InitAuthz /\ [][NextAuthz]_vars

----------------------------------------------------------------------------
(* The moderation workflow: its requests and their inputs *)

\* accounts that send moderation requests; jane_smith also files reports
Actors == {"admin", "moderator_food", "jane_smith"}
Reporters == {"jane_smith"}
\* accounts a restriction is issued against
Targets == {"john_doe", GhostUser}
\* req.body.hours: none, within the cap, above the cap
HoursInputs == {Null, 24, 72}
ReasonInputs == {"spam", "bogus"}
ActionInputs == (HandleActions \ {"restrict_user"}) \cup {"", "bogus"}
ReportIds == 0..MaxReports
\* req.body.reason of escalate: missing, given
EscalateReasonInputs == {"", "needs admin"}

Next ==
    \/ \E p \in ReportProcs, u \in Reporters, q \in PostIds \cup {GhostPost},
          r \in ReasonInputs : ReportCheck(p, u, q, r)
    \/ \E p \in ReportProcs : ReportCreate(p)
    \/ \E a \in Actors, i \in ReportIds, c \in ActionInputs :
          Handle(a, i, c, "notes", Null)
    \/ \E a \in Actors, i \in ReportIds, h \in HoursInputs :
          Handle(a, i, "restrict_user", "notes", h)
    \/ \E a \in Actors, i \in ReportIds, c \in HandleActions :
          Handle(a, i, c, "", Null)
    \/ TickDay

NextLedger ==
    \/ \E a \in Actors, t \in Targets : Ban(a, t)
    \/ \E a \in Actors, t \in Targets : Unban(a, t)
    \/ \E a \in Actors, t \in Targets, h \in HoursInputs : ManagerRestrict(a, t, h)
    \/ \E a \in Actors, t \in Targets, h \in HoursInputs : AdminRestrict(a, t, h)
    \/ \E t \in Targets : ActiveRestrictionQuery(t)
    \/ TickDay

SpecLedger == InitCommon /\ [][NextLedger]_vars

\* the actions a report is triaged with: resolving, dismissing, invalid
TriageActionInputs == {"hide_post", "dismiss", "", "bogus"}

\* the life of a report: filing, handle and escalate
NextTriage ==
    \/ \E p \in ReportProcs, u \in Reporters, q \in PostIds : ReportCheck(p, u, q, "spam")
    \/ \E p \in ReportProcs : ReportCreate(p)
    \/ \E a \in Actors, i \in ReportIds, c \in TriageActionInputs :
          Handle(a, i, c, "notes", Null)
    \/ \E a \in Actors, i \in ReportIds : Handle(a, i, "dismiss", "", Null)
    \/ \E a \in Actors, i \in ReportIds, r \in EscalateReasonInputs :
          Escalate(a, i, r)
    \/ \E a \in Actors : ListReports(a)

SpecTriage == InitCommon /\ [][NextTriage]_vars

\* the report queue, for accounts of every role and every set of managed
\* tags: john_doe files reports, every account asks for the queue
NextQueue ==
    \/ \E q \in PostIds : ReportCheck("r1", "john_doe", q, "spam")
    \/ ReportCreate("r1")
    \/ \E a \in UserIds : ListReports(a)

SpecQueue == InitAuthz /\ [][NextQueue]_vars

Spec == InitCommon /\ [][Next]_vars

----------------------------------------------------------------------------
(* Password change: middleware/auth.js and POST /change-password *)

\* req.body.newPassword: six passwords validatePassword accepts (one more
\* than the history keeps), one it rejects
PasswordInputs == {"Passw0rd!a", "Passw0rd!b", "Passw0rd!c", "Passw0rd!d",
                   "Passw0rd!e", "Passw0rd!f", "short"}

\* the characters of the passwords of PasswordInputs (a password is the
\* sequence of its characters)
Characters(password) ==
    IF password = "short" THEN <<"s", "h", "o", "r", "t">>
    ELSE <<"P", "a", "s", "s", "w", "0", "r", "d", "!">> \o
         <<CHOOSE c \in {"a", "b", "c", "d", "e", "f"} : password = "Passw0rd!" \o c>>

\* /[A-Z]/
Uppercase == {"A", "B", "C", "D", "E", "F", "G", "H", "I", "J", "K", "L", "M",
              "N", "O", "P", "Q", "R", "S", "T", "U", "V", "W", "X", "Y", "Z"}

\* /[a-z]/
Lowercase == {"a", "b", "c", "d", "e", "f", "g", "h", "i", "j", "k", "l", "m",
              "n", "o", "p", "q", "r", "s", "t", "u", "v", "w", "x", "y", "z"}

\* /[0-9]/
Numbers == {"0", "1", "2", "3", "4", "5", "6", "7", "8", "9"}

\* /[!@#$%^&*()_+\-=\[\]{};':"\\|,.<>\/?]/
SpecialCharacters ==
    {"!", "@", "#", "$", "%", "^", "&", "*", "(", ")", "_", "+", "-", "=", "[",
     "]", "{", "}", ";", "'", ":", "\"", "\\", "|", ",", ".", "<", ">", "/", "?"}

\* regex.test(password) for a character class
Test(class, password) == \E i \in 1..Len(password) : password[i] \in class

\* errors.push(message) when cond holds
PushIf(errors, cond, message) == IF cond THEN Append(errors, message) ELSE errors

\* validatePassword whose complexity checks stop at the first violated rule
validatePasswordFirstOnly(password) ==
    LET e1 == PushIf(<<>>, Len(password) < MinPasswordLength,
                     "Password must be at least 8 characters long")
        e2 == PushIf(e1, Len(password) > MaxPasswordLength,
                     "Password must not exceed 128 characters")
        e3 == IF ~Test(Uppercase, password)
              THEN Append(e2, "Password must contain at least one uppercase letter")
              ELSE IF ~Test(Lowercase, password)
              THEN Append(e2, "Password must contain at least one lowercase letter")
              ELSE IF ~Test(Numbers, password)
              THEN Append(e2, "Password must contain at least one number")
              ELSE IF ~Test(SpecialCharacters, password)
              THEN Append(e2, "Password must contain at least one special character")
              ELSE e2
    IN [isValid |-> Len(e3) = 0, errors |-> e3]

\* validatePassword(password): {isValid, errors}
validatePassword(password) ==
    LET e1 == PushIf(<<>>, Len(password) < MinPasswordLength,
                     "Password must be at least 8 characters long")
        e2 == PushIf(e1, Len(password) > MaxPasswordLength,
                     "Password must not exceed 128 characters")
        e3 == PushIf(e2, ~Test(Uppercase, password),
                     "Password must contain at least one uppercase letter")
        e4 == PushIf(e3, ~Test(Lowercase, password),
                     "Password must contain at least one lowercase letter")
        e5 == PushIf(e4, ~Test(Numbers, password),
                     "Password must contain at least one number")
        e6 == PushIf(e5, ~Test(SpecialCharacters, password),
                     "Password must contain at least one special character")
    IN [isValid |-> Len(e6) = 0, errors |-> e6]

\* the last n elements of a sequence (Array.prototype.slice(-n))
LastN(seq, n) == IF Len(seq) <= n THEN seq ELSE SubSeq(seq, Len(seq) - n + 1, Len(seq))

\* isPasswordReused(user, newPassword)
isPasswordReused(user, newPassword) ==
    \E i \in 1..Len(user.passwordHistory) :
        bcryptCompare(newPassword, user.passwordHistory[i].password)

\* updatePasswordHistory keeping one entry fewer ("slice(-4)")
updatePasswordHistoryKeep4(user, newHashedPassword, t) ==
    [password |-> newHashedPassword,
     passwordHistory |->
        LastN(Append(user.passwordHistory, [password |-> user.password, changedAt |-> t]),
              MaxHistory - 1),
     passwordChangedAt |-> t]

\* updatePasswordHistory(user, newHashedPassword): the document it saves
updatePasswordHistory(user, newHashedPassword, t) ==
    [password |-> newHashedPassword,
     passwordHistory |->
        LET pushed == Append(user.passwordHistory,
                             [password |-> user.password, changedAt |-> t])
        IN IF Len(pushed) > MaxHistory THEN LastN(pushed, MaxHistory) ELSE pushed,
     passwordChangedAt |-> t]

\* canChangePassword(user).allowed at time t
canChangePassword(user, t) ==
    IF user.passwordChangedAt = Null THEN TRUE
    ELSE ~(t - user.passwordChangedAt < MinPasswordAgeDays * DayMinutes)

\* logActivity(userId, action, ...): the entry is saved for every user id;
\* with userId = null the required path 'user' fails validation and the catch
\* block drops the entry
LogActivity(userId, action) ==
    IF userId = "" THEN activityLog
    ELSE Append(activityLog, [user |-> userId, action |-> action])

\* the log can take another entry (the bound of the password specifications)
PwdLogRoom == Len(activityLog) < MaxPwdLog

\* POST /change-password
ChangePassword(currentPassword, newPassword, confirmNewPassword) ==
    /\ UserExists(PwdUser)
    /\ IF ~bcryptCompare(currentPassword, pwd.password)
       THEN /\ PwdLogRoom
            /\ activityLog' = LogActivity(PwdUser, "FAILED_PASSWORD_CHANGE")
            /\ last' = Response("change_password", PwdUser, newPassword, "wrong_current",
                                Null, 400, "Current password is incorrect")
            /\ UNCHANGED pwd
       ELSE IF newPassword # confirmNewPassword
       THEN /\ last' = Response("change_password", PwdUser, newPassword, "mismatch",
                                Null, 400, "New passwords do not match")
            /\ UNCHANGED <<pwd, activityLog>>
       ELSE IF ~validatePassword(Characters(newPassword)).isValid
       THEN /\ last' = Response("change_password", PwdUser, newPassword, "invalid",
                                Null, 400, "Password must be at least 8 characters long")
            /\ UNCHANGED <<pwd, activityLog>>
       ELSE IF ~canChangePassword(pwd, now)
       THEN /\ last' = Response("change_password", PwdUser, newPassword, "too_soon",
                                Null, 400, "Password can only be changed once per day")
            /\ UNCHANGED <<pwd, activityLog>>
       ELSE IF isPasswordReused(pwd, newPassword)
       THEN /\ last' = Response("change_password", PwdUser, newPassword, "reused",
                                Null, 400, "Password has been used previously")
            /\ UNCHANGED <<pwd, activityLog>>
       ELSE /\ PwdLogRoom
            /\ pwd' = updatePasswordHistory(pwd, Hash(newPassword, now), now)
            /\ activityLog' = LogActivity(PwdUser, "PASSWORD_CHANGE")
            /\ last' = Response("change_password", PwdUser, newPassword, "changed",
                                Null, 200, "")
    /\ UNCHANGED <<now, users, cred, lpc, luser, resetSession, modVars, authz>>

\* a day passes (password history specification)
TickPasswordDay ==
    /\ now < MaxPwdDays * DayMinutes
    /\ now' = now + DayMinutes
    /\ last' = NoRequest
    /\ UNCHANGED <<users, loginVars, modVars, activityLog, authz>>

\* half a day passes (password age specification)
TickHalfDay ==
    /\ now < MaxHalfDays * 12 * HourMinutes
    /\ now' = now + 12 * HourMinutes
    /\ last' = NoRequest
    /\ UNCHANGED <<users, loginVars, modVars, activityLog, authz>>

\* password changes by the session's user, who knows the current password
NextPassword ==
    \/ \E n \in PasswordInputs : ChangePassword(pwd.password.pw, n, n)
    \/ TickPasswordDay

SpecPassword == InitCommon /\ [][NextPassword]_vars

\* req.body of the password age specification
AgePasswordInputs == {"Passw0rd!a", "Passw0rd!b", "short"}

\* password changes with every kind of request body, half a day apart
NextPasswordAge ==
    \/ \E c, n, m \in AgePasswordInputs : ChangePassword(c, n, m)
    \/ TickHalfDay

SpecPasswordAge == InitCommon /\ [][NextPasswordAge]_vars

\* the characters the cores of candidates are made of: one of each class of
\* the rules ("~", the padding, is of none)
CandidateAlphabet == {"A", "z", "0", "!"}

\* the numbers of "~"s that bring a core of MaxCoreLen characters to the
\* lengths next to both limits
PadLengths ==
    {MinPasswordLength - MaxCoreLen - 1, MinPasswordLength - MaxCoreLen,
     MaxPasswordLength - MaxCoreLen, MaxPasswordLength - MaxCoreLen + 1}

\* n times the character c
Pad(c, n) == [i \in 1..n |-> c]

\* candidate passwords: up to MaxCoreLen characters followed by "~"s, with
\* lengths around both limits (7, 8, 128, 129)
Candidates ==
    {core \o Pad("~", n) :
        core \in UNION {[1..k -> CandidateAlphabet] : k \in 0..MaxCoreLen},
        n \in PadLengths}

\* a call of validatePassword(password); the result is kept in last
ValidatePassword(password) ==
    /\ last' = [Response("validatePassword", "", password,
                         IF validatePassword(password).isValid THEN "valid" ELSE "invalid",
                         Null, Null, "")
                  EXCEPT !.list = validatePassword(password).errors]
    /\ UNCHANGED <<now, users, loginVars, modVars, activityLog, authz>>

NextValidate == \E password \in Candidates : ValidatePassword(password)

SpecValidate == InitCommon /\ [][NextValidate]_vars

----------------------------------------------------------------------------
(* Password reset: POST /forgot-password/verify-answer and /reset-password *)

\* crypto.randomBytes(32).toString('hex'): the token of the session
SessionToken == "token"

\* the log can take another entry (the bound of the reset specification)
ResetLogRoom == Len(activityLog) < MaxResetLog

\* POST /forgot-password/verify-answer; answerMatch is the outcome of
\* bcrypt.compare on the security answer
VerifyAnswer(username, answerMatch) ==
    /\ ResetLogRoom
    /\ IF username # PwdUser \/ ~UserExists(PwdUser)
       THEN /\ activityLog' = LogActivity("", "FAILED_PASSWORD_RESET")
            /\ last' = Response("verify_answer", username, "", "invalid", Null, 200,
                                "Invalid request. Please start over.")
            /\ UNCHANGED resetSession
       ELSE IF ~answerMatch
       THEN /\ activityLog' = LogActivity(PwdUser, "FAILED_PASSWORD_RESET")
            /\ last' = Response("verify_answer", username, "", "wrong_answer", Null, 200,
                                "Incorrect answer to security question. Please try again.")
            /\ UNCHANGED resetSession
       ELSE /\ resetSession' = [passwordResetToken |-> SessionToken,
                                passwordResetUsername |-> username,
                                passwordResetExpires |-> now + ResetTokenMinutes]
            /\ activityLog' = LogActivity(PwdUser, "PASSWORD_RESET_VERIFIED")
            /\ last' = Response("verify_answer", username, "", "verified", Null, 200, "")
    /\ UNCHANGED <<now, users, cred, lpc, luser, pwd, modVars, authz>>

\* POST /forgot-password/reset-password
ResetPassword(username, resetToken, newPassword, confirmPassword) ==
    /\ IF \/ resetSession.passwordResetToken = ""
          \/ resetSession.passwordResetUsername = ""
          \/ resetSession.passwordResetToken # resetToken
          \/ resetSession.passwordResetUsername # username
          \/ now > resetSession.passwordResetExpires
       THEN /\ ResetLogRoom
            /\ activityLog' = LogActivity("", "FAILED_PASSWORD_RESET")
            /\ last' = Response("reset_password", username, newPassword, "bad_token",
                                Null, 200, "Invalid or expired reset link. Please start over.")
            /\ UNCHANGED <<pwd, resetSession>>
       ELSE IF newPassword # confirmPassword
       THEN /\ last' = Response("reset_password", username, newPassword, "mismatch",
                                Null, 200, "Passwords do not match.")
            /\ UNCHANGED <<pwd, resetSession, activityLog>>
       ELSE IF ~validatePassword(Characters(newPassword)).isValid
       THEN /\ last' = Response("reset_password", username, newPassword, "invalid",
                                Null, 200, "Password must be at least 8 characters long")
            /\ UNCHANGED <<pwd, resetSession, activityLog>>
       ELSE IF username # PwdUser \/ ~UserExists(PwdUser)
       THEN /\ last' = Response("reset_password", username, newPassword, "no_user",
                                Null, 200, "User not found. Please start over.")
            /\ UNCHANGED <<pwd, resetSession, activityLog>>
       ELSE IF isPasswordReused(pwd, newPassword)
       THEN /\ ResetLogRoom
            /\ activityLog' = LogActivity(PwdUser, "FAILED_PASSWORD_RESET")
            /\ last' = Response("reset_password", username, newPassword, "reused",
                                Null, 200, "Cannot reuse any of your last 5 passwords.")
            /\ UNCHANGED <<pwd, resetSession>>
       ELSE /\ ResetLogRoom
            /\ pwd' = updatePasswordHistory(pwd, Hash(newPassword, now), now)
            /\ resetSession' = NoResetSession
            /\ activityLog' = LogActivity(PwdUser, "PASSWORD_RESET_SUCCESS")
            /\ last' = Response("reset_password", username, newPassword, "changed",
                                Null, 200, "")
    /\ UNCHANGED <<now, users, cred, lpc, luser, modVars, authz>>

\* req.body.newPassword of the reset and of the change
ResetPasswordInputs == {"Passw0rd!a", "Passw0rd!b", "short"}

\* req.body.resetToken: the token of the form, another one
ResetTokenInputs == {SessionToken, "stale"}

\* both ways of changing the password of PwdUser, half a day apart
NextReset ==
    \/ \E n \in ResetPasswordInputs : ChangePassword(pwd.password.pw, n, n)
    \/ \E u \in {PwdUser, GhostUser}, m \in BOOLEAN : VerifyAnswer(u, m)
    \/ \E k \in ResetTokenInputs, n, c \in ResetPasswordInputs :
          ResetPassword(PwdUser, k, n, c)
    \/ TickHalfDay

SpecReset == InitCommon /\ [][NextReset]_vars

----------------------------------------------------------------------------
(* Role changes: POST and PATCH /admin/users/:userId/role *)

\* POST /admin/users/:userId/role (moderation-routes.js):
\* User.findByIdAndUpdate(userId, { role }); an id no account has updates
\* nothing and is answered as a success
ChangeRole(actor, target, role) ==
    LET gate == RequireRole(actor, {"administrator"}) IN
    /\ IF gate # 0
       THEN /\ last' = Refusal("change_role", actor, gate, "Access denied")
            /\ UNCHANGED <<users, activityLog>>
       ELSE /\ LogRoom
            /\ users' = IF UserExists(target)
                        THEN [users EXCEPT ![target].role = role]
                        ELSE users
            /\ activityLog' = LogEntry(actor, "CHANGE_ROLE")
            /\ last' = Response("change_role", actor, target, role, Null, 200, "")
    /\ UNCHANGED <<now, loginVars, modVars, authz>>

\* isAdministrator (middleware/auth.js): 0 when the request may proceed
isAdministrator(actor) ==
    IF ~UserExists(actor) THEN 302
    ELSE IF users[actor].role # "administrator" THEN 403
    ELSE 0

\* PATCH /admin/users/:userId/role (app.js); given = the body has a
\* managedTags (an array is truthy even when empty)
PatchRole(actor, target, role, given, managedTags) ==
    LET gate == isAdministrator(actor) IN
    /\ IF gate = 302
       THEN /\ last' = Refusal("patch_role", actor, 302, "")
            /\ UNCHANGED <<users, activityLog>>
       ELSE IF gate = 403
       THEN /\ LogRoom
            /\ activityLog' = LogActivity(actor, "ACCESS_DENIED")
            /\ last' = Refusal("patch_role", actor, 403, "Access Denied")
            /\ UNCHANGED users
       ELSE IF role \notin Roles
       THEN /\ last' = Refusal("patch_role", actor, 400, "Invalid role")
            /\ UNCHANGED <<users, activityLog>>
       ELSE IF ~UserExists(target)
       THEN /\ last' = Refusal("patch_role", actor, 404, "User not found")
            /\ UNCHANGED <<users, activityLog>>
       ELSE /\ LogRoom
            /\ users' = [users EXCEPT
                            ![target].role = role,
                            ![target].managedTags =
                                IF role = "manager" /\ given THEN managedTags
                                ELSE IF role # "manager" THEN {}
                                ELSE @]
            /\ activityLog' = LogActivity(actor, "CHANGE_ROLE")
            /\ last' = Response("patch_role", actor, target, role, Null, 200, "")
    /\ UNCHANGED <<now, loginVars, modVars, authz>>

\* req.body.role
RoleInputs == Roles \cup {"bogus"}

\* req.body.managedTags
ManagedTagsInputs == {{}, {"Travel"}}

\* req.params.userId of the role routes
RoleTargets == {"moderator_food", "jane_smith", GhostUser}

NextRoles ==
    \/ \E a \in Actors, t \in RoleTargets, r \in RoleInputs : ChangeRole(a, t, r)
    \/ \E a \in Actors, t \in RoleTargets, r \in RoleInputs,
          given \in BOOLEAN, tags \in ManagedTagsInputs :
          PatchRole(a, t, r, given, tags)

SpecRoles == InitCommon /\ [][NextRoles]_vars

----------------------------------------------------------------------------
(* Unban and ban running concurrently: each await is a step *)

\* POST /admin/users/:userId/unban up to the start of updateMany: the role
\* check; uend is the number of documents the collection has at that time
UnbanStart(actor, target) ==
    LET gate == RequireRole(actor, {"administrator"}) IN
    /\ race.upc = "idle"
    /\ IF gate # 0
       THEN /\ last' = Refusal("unban", actor, gate, "Access denied")
            /\ UNCHANGED race
       ELSE /\ race' = [race EXCEPT !.upc = "scan", !.uactor = actor, !.utarget = target,
                                     !.upos = 0, !.uend = Len(restrictions)]
            /\ last' = NoRequest
    /\ UNCHANGED <<now, users, loginVars, posts, reports, restrictions,
                   postModerations, rpc, rreq, activityLog, authz>>

\* updateMany writing one document: { isActive: false } if it matches
\* { user, isActive: true }
DeactivateAt(i, target) ==
    IF restrictions[i].user = target /\ restrictions[i].isActive
    THEN [restrictions EXCEPT ![i].isActive = FALSE]
    ELSE restrictions

\* updateMany advancing by one document (the writes of updateMany to
\* different documents are separate writes, in the order of the collection)
UnbanScan ==
    /\ race.upc = "scan"
    /\ race.upos < Len(restrictions)
    /\ restrictions' = DeactivateAt(race.upos + 1, race.utarget)
    /\ race' = [race EXCEPT !.upos = @ + 1]
    /\ last' = NoRequest
    /\ UNCHANGED <<now, users, loginVars, posts, reports, postModerations, rpc, rreq,
                   activityLog, authz>>

\* a scan that may end after its first document
ScanCompleteEarly(pos, end) == pos >= Min(1, end)

\* updateMany may end once it has passed every document the collection had
\* when it started; whether it sees a document inserted meanwhile is not
\* determined
ScanComplete(pos, end) == pos >= end

\* POST /admin/users/:userId/unban from the end of updateMany on: the log
\* entry and the response
UnbanDone ==
    /\ race.upc = "scan"
    /\ ScanComplete(race.upos, race.uend)
    /\ RaceLogRoom
    /\ activityLog' = LogEntry(race.uactor, "UNBAN_USER")
    /\ last' = Response("unban", race.uactor, race.utarget, "unbanned", Null, 200, "")
    /\ race' = [race EXCEPT !.upc = "idle", !.uactor = "", !.utarget = "",
                            !.upos = 0, !.uend = 0]
    /\ UNCHANGED <<now, users, loginVars, posts, reports, restrictions,
                   postModerations, rpc, rreq, authz>>

\* POST /admin/users/:userId/ban up to UserRestriction.create: the role
\* check and User.findById
BanCheck(actor, target) ==
    LET gate == RequireRole(actor, {"administrator"}) IN
    /\ race.bpc = "idle"
    /\ IF gate # 0
       THEN /\ last' = Refusal("ban", actor, gate, "Access denied")
            /\ UNCHANGED race
       ELSE IF ~UserExists(target)
       THEN /\ last' = Refusal("ban", actor, 404, "User not found")
            /\ UNCHANGED race
       ELSE /\ Len(restrictions) < MaxRaceRestrictions
            /\ race' = [race EXCEPT !.bpc = "create", !.bactor = actor, !.btarget = target]
            /\ last' = NoRequest
    /\ UNCHANGED <<now, users, loginVars, posts, reports, restrictions,
                   postModerations, rpc, rreq, activityLog, authz>>

\* POST /admin/users/:userId/ban from UserRestriction.create on
BanCreate ==
    /\ race.bpc = "create"
    /\ RaceLogRoom
    /\ restrictions' = Append(restrictions,
                          NewRestriction(race.btarget, race.bactor, "permanent_ban", Null))
    /\ activityLog' = LogEntry(race.bactor, "PERMANENT_BAN")
    /\ last' = Response("ban", race.bactor, race.btarget, "permanent_ban", Null, 200, "")
    /\ race' = [race EXCEPT !.bpc = "idle", !.bactor = "", !.btarget = ""]
    /\ UNCHANGED <<now, users, loginVars, posts, reports, postModerations, rpc, rreq,
                   authz>>

\* req.params.userId of the concurrent requests
RaceTargets == {"john_doe", "jane_smith", GhostUser}

NextRace ==
    \/ \E a \in Actors, t \in RaceTargets : UnbanStart(a, t)
    \/ UnbanScan
    \/ UnbanDone
    \/ \E a \in Actors, t \in RaceTargets : BanCheck(a, t)
    \/ BanCreate

SpecRace == InitCommon /\ [][NextRace]_vars

----------------------------------------------------------------------------
(* Deleted accounts: DELETE /admin/users/:userId *)

\* DELETE /admin/users/:userId (moderation-routes.js, registered before the
\* route of the same path in app.js, which therefore never runs):
\* User.findByIdAndDelete(userId); the posts of the account stay
DeleteUser(actor, target) ==
    LET gate == RequireRole(actor, {"administrator"}) IN
    /\ IF gate # 0
       THEN /\ last' = Refusal("delete_user", actor, gate, "Access denied")
            /\ UNCHANGED <<users, activityLog>>
       ELSE IF target = actor
       THEN /\ last' = Refusal("delete_user", actor, 400, "Cannot delete your own account")
            /\ UNCHANGED <<users, activityLog>>
       ELSE /\ LogRoom
            /\ users' = IF UserExists(target)
                        THEN [users EXCEPT ![target].exists = FALSE]
                        ELSE users
            /\ activityLog' = LogEntry(actor, "DELETE_USER")
            /\ last' = Response("delete_user", actor, target, "deleted", Null, 200, "")
    /\ UNCHANGED <<now, loginVars, modVars, authz>>

\* the handle actions that issue a restriction, and one that does not
IssuingActionInputs == {"warn_user", "restrict_user", "dismiss"}

\* req.params.userId of the delete route: the author of the posts, the
\* administrator
DeleteTargets == {"john_doe", "admin"}

\* issuing restrictions, on every path, while accounts are deleted
NextDeleted ==
    \/ \E p \in ReportProcs : ReportCheck(p, "jane_smith", "post1", "spam")
    \/ \E p \in ReportProcs : ReportCreate(p)
    \/ \E a \in Actors, t \in DeleteTargets : DeleteUser(a, t)
    \/ \E a \in Actors, i \in ReportIds, c \in IssuingActionInputs :
          Handle(a, i, c, "notes", 24)
    \/ \E a \in Actors, t \in Targets : Ban(a, t)
    \/ \E a \in Actors, t \in Targets : ManagerRestrict(a, t, 24)
    \/ \E a \in Actors, t \in Targets : AdminRestrict(a, t, 24)

SpecDeleted == InitCommon /\ [][NextDeleted]_vars

\* DELETE /delete-post/:postId (app.js): Post.findById, canEditOrDelete,
\* Post.findByIdAndDelete
DeletePost(actor, post) ==
    /\ UserExists(actor)
    /\ IF ~PostExists(post)
       THEN /\ last' = Refusal("delete_post", actor, 404, "Post not found")
            /\ UNCHANGED <<posts, activityLog>>
       ELSE IF ~canEditOrDelete(actor, posts[post].user, post)
       THEN /\ LogRoom
            /\ activityLog' = LogActivity(actor, "AUTHORIZATION_FAILED")
            /\ last' = Refusal("delete_post", actor, 403,
                               "You don't have permission to delete this post")
            /\ UNCHANGED posts
       ELSE /\ LogRoom
            /\ posts' = [posts EXCEPT ![post].exists = FALSE]
            /\ activityLog' = LogActivity(actor, "DELETE_POST")
            /\ last' = Response("delete_post", actor, post, "deleted", Null, 200, "")
    /\ UNCHANGED <<now, users, loginVars, reports, restrictions, postModerations,
                   rpc, rreq, race, authz>>

\* accounts that ask for the deletion of a post: its owner, a manager of
\* its tag, an account with no right over it
PostDeleters == {"john_doe", "moderator_food", "jane_smith"}

\* reports on post1 while posts and accounts are deleted
NextDeletePost ==
    \/ \E p \in ReportProcs : ReportCheck(p, "jane_smith", "post1", "spam")
    \/ \E p \in ReportProcs : ReportCreate(p)
    \/ \E a \in PostDeleters, q \in PostIds : DeletePost(a, q)
    \/ \E a \in Actors, t \in DeleteTargets : DeleteUser(a, t)
    \/ \E a \in Actors, i \in ReportIds, c \in {"delete_post", "dismiss"} :
          Handle(a, i, c, "notes", Null)

SpecDeletePost == InitCommon /\ [][NextDeletePost]_vars

\* accounts restrictions are issued to and lifted from
FrameTargets == {"john_doe", "jane_smith"}

\* requests of accounts while bans are issued to them, expire and are
\* lifted: john_doe logs in with the right password, jane_smith files
\* reports
NextBanned ==
    \/ \E a \in {"admin"}, t \in FrameTargets : Ban(a, t)
    \/ \E a \in {"admin"}, t \in FrameTargets : Unban(a, t)
    \/ \E a \in {"admin"}, t \in FrameTargets : AdminRestrict(a, t, 24)
    \/ LoginRequest("l1", "john_doe", TRUE)
    \/ LoginSucceeded("l1")
    \/ ReportCheck("r1", "jane_smith", "post1", "spam")
    \/ ReportCreate("r1")
    \/ TickDay

SpecBanned == InitCommon /\ [][NextBanned]_vars

\* every operation that writes reports, restrictions or log entries, and
\* the deletion of an account
NextFrame ==
    \/ ReportCheck("r1", "jane_smith", "post1", "spam")
    \/ ReportCreate("r1")
    \/ \E a \in Actors, i \in ReportIds, c \in {"warn_user", "dismiss"} :
          Handle(a, i, c, "notes", Null)
    \/ \E a \in Actors, i \in ReportIds : Escalate(a, i, "needs admin")
    \/ \E a \in Actors, t \in FrameTargets : Ban(a, t)
    \/ \E a \in Actors, t \in FrameTargets : Unban(a, t)
    \/ \E a \in Actors, t \in FrameTargets : AdminRestrict(a, t, 24)
    \/ \E a \in Actors, t \in DeleteTargets : DeleteUser(a, t)

SpecFrame == InitCommon /\ [][NextFrame]_vars

----------------------------------------------------------------------------
(* Claims about the lockout *)

\* the step completes a failed login (handleFailedLogin has saved)
FailedLoginStep == last'.op = "login" /\ last'.action = "failed"

\* the step answers a login attempt with "Account is locked"
LockedLoginStep == last'.op = "login" /\ last'.action = "locked"

C1_Step ==
    /\ \A u \in UserIds :
          (FailedLoginStep /\ last'.actor = u
              /\ cred'[u].failedLoginAttempts >= LockThreshold)
          => /\ cred'[u].accountLockedUntil = now + LockMinutes
             /\ \A t \in now..(now + LockMinutes - 1) : isAccountLocked(cred'[u], t)
             /\ ~isAccountLocked(cred'[u], now + LockMinutes)
    /\ \A p \in LoginProcs :
          (lpc[p] = "idle" /\ lpc'[p] # "idle")
          => ~isAccountLocked(cred[luser'[p].id], now)
    /\ LockedLoginStep => (cred' = cred /\ lpc' = lpc /\ luser' = luser)

\* C1: the failed login that brings the counter to 5 (or more) sets
\* accountLockedUntil to exactly 15 minutes after it, so isAccountLocked holds
\* at every instant before that and not at it; a login attempted while the
\* account is locked is answered "locked", is never admitted to the password
\* check and changes neither accountLockedUntil nor failedLoginAttempts.
C1_LockWindow == [][C1_Step]_vars

\* a 6th attempt was made while john_doe was locked by 5 failures, later than
\* the 5th failure, and was refused with the window as the 5th failure set it
C1_Witness ==
    /\ last.op = "login" /\ last.action = "locked" /\ last.actor = "john_doe"
    /\ cred["john_doe"].failedLoginAttempts = LockThreshold
    /\ cred["john_doe"].accountLockedUntil = LockMinutes
    /\ now = 2 * ClockStep
    /\ last.hours = LockMinutes - 2 * ClockStep

\* C2: no increment is lost: every completed failed login leaves the stored
\* counter one higher than it was, so k of them raise it by k
C2_NoLostIncrement ==
    [][\A u \in UserIds :
          (FailedLoginStep /\ last'.actor = u)
          => cred'[u].failedLoginAttempts = cred[u].failedLoginAttempts + 1]_vars

----------------------------------------------------------------------------
(* Claims about filing a report *)

\* C3: concurrent filings by one reporter on one post create at most one
\* Report for that (reporter, post) pair
C3_AtMostOneReport ==
    \A i, j \in 1..Len(reports) :
        (reports[i].post = reports[j].post /\ reports[i].reportedBy = reports[j].reportedBy)
        => i = j

\* the step answers a filing with "You have already reported this post"
DuplicateRefusedStep ==
    last'.op = "report" /\ last'.error = "You have already reported this post"

\* the step answers a filing with success
ReportCreatedStep == last'.op = "report" /\ last'.action = "created"

\* some process files a request in this step (it is idle before the step)
FilingArrives(reporter, post) ==
    \E p \in ReportProcs :
        /\ rpc[p] = "idle"
        /\ \/ rpc'[p] = "create" /\ rreq'[p].post = post /\ rreq'[p].reportedBy = reporter
           \/ rpc' = rpc /\ last'.op = "report" /\ last'.actor = reporter
              /\ last'.target = post

\* a report by reporter on post is stored with status pending
PendingReportBy(post, reporter) ==
    \E i \in 1..Len(reports) :
        /\ reports[i].post = post /\ reports[i].reportedBy = reporter
        /\ reports[i].status = "pending"

C4_Step ==
    /\ \A u \in UserIds, q \in PostIds :
          (FilingArrives(u, q) /\ PendingReportBy(q, u))
          => (DuplicateRefusedStep /\ reports' = reports /\ rpc' = rpc)
    /\ DuplicateRefusedStep => (reports' = reports /\ last'.action # "created")
    /\ \A u \in UserIds, q \in PostIds :
          (FilingArrives(u, q) /\ PostExists(q)
              /\ ~\E i \in 1..Len(reports) :
                     reports[i].post = q /\ reports[i].reportedBy = u)
          => (~DuplicateRefusedStep /\ \E p \in ReportProcs :
                 rpc[p] = "idle" /\ rpc'[p] = "create")
    /\ \A p \in ReportProcs :
          (rpc[p] = "create" /\ rpc'[p] = "idle" /\ rreq[p].reason \in ReportReasons)
          => (ReportCreatedStep /\ last'.target = rreq[p].post
                 /\ last'.actor = rreq[p].reportedBy)
    /\ ReportCreatedStep =>
          /\ Len(reports') = Len(reports) + 1
          /\ SubSeq(reports', 1, Len(reports)) = reports
          /\ reports'[Len(reports')].status = "pending"
          /\ reports'[Len(reports')].post = last'.target
          /\ reports'[Len(reports')].reportedBy = last'.actor
          /\ PostExists(last'.target)

----------------------------------------------------------------------------
(* Claims about handling a report *)

\* the step completes a handle request with success
HandledStep == last'.op = "handle" /\ last'.status = 200

\* the step refuses a handle request
HandleRefusedStep == last'.op = "handle" /\ last'.status # 200

\* the tag of the post of report rid
ReportTag(rid) == posts[reports[rid].post].postTag

C5_Gate ==
    \A rid \in 1..Len(reports), c \in HandleActions :
        PostExists(reports[rid].post) =>
          /\ \A a \in UserIds :
                (UserExists(a) /\ users[a].role = "manager") =>
                   HandleGate(a, rid, c, "notes") =
                      (IF ReportTag(rid) \in users[a].managedTags THEN 0 ELSE 403)
          /\ \A a \in UserIds :
                (UserExists(a) /\ users[a].role = "administrator") =>
                   HandleGate(a, rid, c, "notes") = 0

C5_Step ==
    /\ (HandledStep /\ users[last'.actor].role = "manager")
          => ReportTag(last'.target) \in users[last'.actor].managedTags
    /\ HandleRefusedStep
          => UNCHANGED <<reports, posts, restrictions, postModerations>>

\* C5: a manager's handle request passes the checks iff the reported post's
\* tag is in the manager's managedTags and is otherwise answered 403, an
\* administrator's passes for every tag; a handle by a manager that took
\* effect was on a post whose tag the manager manages, and a refused handle
\* leaves reports, posts, restrictions and moderation records unchanged
C5_TagAuthority == []C5_Gate /\ [][C5_Step]_vars

\* moderator_food (Food, Coffee) was refused on the report of the Travel post
\* post3, which is still pending
C5_Witness ==
    /\ last.op = "handle" /\ last.status = 403 /\ last.actor = "moderator_food"
    /\ Len(reports) = 1 /\ reports[1].post = "post3" /\ reports[1].status = "pending"
    /\ restrictions = <<>> /\ postModerations = {}

\* the step completes a handle request with action restrict_user
RestrictHandledStep == HandledStep /\ last'.action = "restrict_user"

\* C7: a manager's handle request with restrict_user and hours above 48 is
\* rejected: it creates no Restriction and leaves the report as it was
C7_OverCapRejected ==
    [][(RestrictHandledStep /\ users[last'.actor].role = "manager"
          /\ last'.hours > HandleMaxHours)
       => (restrictions' = restrictions /\ reports' = reports)]_vars

\* the restriction a step appended
Issued == restrictions'[Len(restrictions')]

\* C8: a temporary ban an administrator issues with hours above 48, through
\* handle or through a restrict endpoint, ends at now + the requested hours
C8_AdminUncapped ==
    [][(last'.status = 200 /\ last'.op \in {"handle", "admin_restrict", "manager_restrict"}
          /\ last'.action \in {"restrict_user", "temporary_ban"}
          /\ users[last'.actor].role = "administrator"
          /\ last'.hours > HandleMaxHours)
       => (/\ Len(restrictions') = Len(restrictions) + 1
           /\ Issued.endDate = HoursFrom(now, last'.hours))]_vars

\* the hours a handle request asks for (48 when it names none)
RequestedHours(h) == IF h = Null THEN 48 ELSE h

C9_Step ==
    (RestrictHandledStep /\ (last'.hours = Null \/ last'.hours \in 1..48))
    => /\ Len(restrictions') = Len(restrictions) + 1
       /\ SubSeq(restrictions', 1, Len(restrictions)) = restrictions
       /\ Issued = [user |-> posts[reports[last'.target].post].user,
                    restrictedBy |-> last'.actor,
                    restrictionType |-> "temporary_ban",
                    endDate |-> now + RequestedHours(last'.hours) * HourMinutes,
                    isActive |-> TRUE]
       /\ reports'[last'.target].status = "resolved"
       /\ reports'[last'.target].handledBy = last'.actor

\* C9: a handle with restrict_user and hours = h, 1 <= h <= 48 (48 when the
\* request names no hours), that took effect has appended exactly one active
\* temporary_ban on the reported post's author ending at now + h hours, and
\* has set the report's status to resolved
C9_RestrictWithinCap == [][C9_Step]_vars

\* moderator_food handled the report on post1 with restrict_user and 24
\* hours, a day after the server started
C9_Witness ==
    /\ last.op = "handle" /\ last.status = 200 /\ last.action = "restrict_user"
    /\ last.hours = 24 /\ last.actor = "moderator_food"
    /\ now = DayMinutes
    /\ Len(restrictions) = 1
    /\ restrictions[1].endDate = DayMinutes + 24 * HourMinutes
    /\ restrictions[1].user = "john_doe"
    /\ reports[last.target].status = "resolved"

----------------------------------------------------------------------------
(* Claims about the post authorization predicates *)

\* C6: for an existing actor and an existing post, canEditOrDelete is true iff
\* the actor owns the post, or is an administrator, or is a manager whose
\* managedTags contain the post's tag
C6_CanEditOrDelete ==
    (authz.fn = "canEditOrDelete" /\ UserExists(authz.actor) /\ PostExists(authz.post))
    => (authz.result <=>
          \/ posts[authz.post].user = authz.actor
          \/ users[authz.actor].role = "administrator"
          \/ /\ users[authz.actor].role = "manager"
             /\ posts[authz.post].postTag \in users[authz.actor].managedTags)

\* jane_smith, a manager of Food only, was allowed on her own Travel post
C6_Witness ==
    /\ authz.fn = "canEditOrDelete" /\ authz.actor = "jane_smith" /\ authz.result
    /\ users["jane_smith"].exists /\ users["jane_smith"].role = "manager"
    /\ users["jane_smith"].managedTags = {"Food"}
    /\ authz.post = "post1" /\ posts["post1"].user = "jane_smith"
    /\ posts["post1"].postTag = "Travel"

----------------------------------------------------------------------------
(* Claims about the restriction ledger *)

\* u has a permanent ban that no unban has deactivated
PermanentlyBanned(u) ==
    \E i \in 1..Len(restrictions) :
        /\ restrictions[i].user = u
        /\ restrictions[i].restrictionType = "permanent_ban"
        /\ restrictions[i].endDate = Null
        /\ restrictions[i].isActive

\* C10: from an administrator's ban of U until an unban, the
\* currently-restricted query for U answers restricted, with restrictionType
\* permanent_ban
C10_BanSurfaced ==
    (last.op = "activeRestriction" /\ PermanentlyBanned(last.target))
    => last.action = "permanent_ban"

\* C11: the query answers restricted iff the account has a restriction with
\* isActive = true and (endDate = null or endDate >= now) at the time of the
\* query, so an account whose only active restrictions have ended is answered
\* not restricted
C11_InEffectAtQueryTime ==
    last.op = "activeRestriction"
    => ((last.action # "none") <=>
          \E i \in 1..Len(restrictions) :
              /\ restrictions[i].user = last.target
              /\ restrictions[i].isActive
              /\ (restrictions[i].endDate = Null \/ restrictions[i].endDate >= now))

\* john_doe's only restriction is a temporary ban that ended a day ago and is
\* still isActive, and the query answered not restricted
C11_Witness ==
    /\ last.op = "activeRestriction" /\ last.target = "john_doe" /\ last.action = "none"
    /\ Len(restrictions) = 1
    /\ restrictions[1].user = "john_doe" /\ restrictions[1].isActive
    /\ restrictions[1].restrictionType = "temporary_ban"
    /\ restrictions[1].endDate # Null /\ restrictions[1].endDate < now

\* the step completes an unban with success
UnbannedStep == last'.op = "unban" /\ last'.status = 200

\* u has a restriction with isActive = true in the ledger l
HasActive(l, u) == \E i \in 1..Len(l) : l[i].user = u /\ l[i].isActive

C12_Step ==
    UnbannedStep =>
       /\ Len(restrictions') = Len(restrictions)
       /\ \A i \in 1..Len(restrictions) :
             /\ restrictions'[i].user = restrictions[i].user
             /\ restrictions'[i].restrictionType = restrictions[i].restrictionType
             /\ restrictions'[i].endDate = restrictions[i].endDate
             /\ restrictions'[i].restrictedBy = restrictions[i].restrictedBy
             /\ restrictions'[i].isActive =
                   (restrictions[i].isActive /\ restrictions[i].user # last'.target)
       /\ ~HasActive(restrictions', last'.target)
       /\ ~HasActive(restrictions, last'.target) => restrictions' = restrictions
       /\ UNCHANGED <<users, posts, reports, postModerations>>

\* C12: a successful unban sets isActive = false on every active restriction
\* of the target and on no other, creates and deletes none, and leaves the
\* target with no active restriction; an unban of an account with no active
\* restriction (a second unban included) succeeds and leaves the ledger, the
\* accounts, the posts and the reports as they were
C12_UnbanLiftsAll == [][C12_Step]_vars

\* admin unbanned john_doe, who had two active restrictions (a temporary and
\* a permanent ban): both are kept and both are inactive
C12_Witness ==
    /\ last.op = "unban" /\ last.status = 200 /\ last.target = "john_doe"
    /\ Len(restrictions) = 2
    /\ restrictions[1].user = "john_doe" /\ ~restrictions[1].isActive
    /\ restrictions[2].user = "john_doe" /\ ~restrictions[2].isActive
    /\ restrictions[2].restrictionType = "permanent_ban"

----------------------------------------------------------------------------
(* Claims about the life of a report *)

\* the statuses the report state machine ends in
TerminalStatuses == {"resolved", "dismissed"}

\* C13: a handle request on a report that is already resolved or dismissed
\* takes no effect: it changes no post, no restriction, no moderation record
\* and leaves the report (status, handler, notes, resolution time) as it was
C13_TerminalNotHandled ==
    [][(HandledStep /\ reports[last'.target].status \in TerminalStatuses)
       => UNCHANGED <<reports, posts, restrictions, postModerations>>]_vars

\* the step completes an escalate request with success
EscalatedStep == last'.op = "escalate" /\ last'.status = 200

\* C14: escalate applied to a report whose status is not pending (resolved,
\* dismissed or escalated) does not change the report's status
C14_EscalateFromPendingOnly ==
    [][(EscalatedStep /\ reports[last'.target].status # "pending")
       => reports'[last'.target].status = reports[last'.target].status]_vars

\* actor may moderate the post of report rid (administrator, or manager of its tag)
HasTagAuthority(actor, rid) ==
    \/ users[actor].role = "administrator"
    \/ users[actor].role = "manager" /\ ReportTag(rid) \in users[actor].managedTags

C15_Gate ==
    \A a \in UserIds, rid \in ReportIds :
        (UserExists(a) /\ users[a].role \in {"manager", "administrator"}) =>
          /\ \A n \in {"", "notes"} : HandleGate(a, rid, "", n) = 400
          /\ \A c \in HandleActions \cup {"bogus"} : HandleGate(a, rid, c, "") = 400
          /\ EscalateGate(a, rid, "") = 400
          /\ (rid \in 1..Len(reports) /\ PostExists(reports[rid].post)
                 /\ HasTagAuthority(a, rid))
             => HandleGate(a, rid, "bogus", "notes") = 400

C15_Step ==
    /\ (last'.op \in {"handle", "escalate"} /\ last'.status = 400)
          => UNCHANGED <<reports, posts, restrictions, postModerations, users,
                         activityLog>>
    /\ (last'.op = "handle" /\ last'.status = 200) => last'.action \in HandleActions

\* C15: for a moderator, a handle request without action or without notes and
\* an escalate request without reason are answered 400 whatever the report,
\* and a handle request with an action outside the five is answered 400 when
\* it passes the report, post and tag checks; a request answered 400 changes
\* no report, post, restriction, moderation record, account or log entry, and
\* no handle with another action takes effect
C15_ValidationRejects == []C15_Gate /\ [][C15_Step]_vars

\* admin's handle of the pending report 1 with an unknown action was answered
\* 400 "Invalid action" and nothing was written
C15_Witness ==
    /\ last.op = "handle" /\ last.status = 400 /\ last.error = "Invalid action"
    /\ last.actor = "admin"
    /\ Len(reports) = 1 /\ reports[1].status = "pending" /\ reports[1].handledBy = ""
    /\ restrictions = <<>> /\ postModerations = {} /\ Len(activityLog) = 1

\* the step answers a handle or escalate request with an authorization
\* denial (not authenticated as an account, role not allowed, tag not managed)
DeniedStep == last'.op \in {"handle", "escalate"} /\ last'.status \in {401, 403}

\* C16: every authorization denial appends an audit entry that carries the
\* actor, and the entry is stored when the response is returned
C16_DenialAudited ==
    [][DeniedStep =>
          /\ Len(activityLog') = Len(activityLog) + 1
          /\ activityLog'[Len(activityLog')].user = last'.actor]_vars

----------------------------------------------------------------------------
(* Claims about failing closed *)

\* C17: an authorization check on a post that does not exist, or for an
\* actor whose account does not exist, answers not-authorized, for every
\* role including administrator
C17_FailsClosed ==
    (authz.fn # "none" /\ (~UserExists(authz.actor) \/ ~PostExists(authz.post)))
    => ~authz.result

----------------------------------------------------------------------------
(* Claims about password changes *)

\* the step completes a password change
PasswordChangedStep == last'.op = "change_password" /\ last'.action = "changed"

\* the step answers a request that reached the reuse check
ReuseCheckedStep ==
    last'.op = "change_password" /\ last'.action \in {"reused", "changed"}

C18_Step ==
    LET h == pwd.passwordHistory
        g == pwd'.passwordHistory
    IN
    /\ ReuseCheckedStep =>
          ((last'.action = "reused") <=>
              \E i \in 1..Len(h) : h[i].password.pw = last'.target)
    /\ PasswordChangedStep =>
          /\ Len(g) = (IF Len(h) < 5 THEN Len(h) + 1 ELSE 5)
          /\ g[Len(g)].password = pwd.password
          /\ \A d \in 1..4 : d <= Len(h) => g[Len(g) - d] = h[Len(h) - d + 1]
          /\ pwd'.password.pw = last'.target
    /\ ~PasswordChangedStep => pwd' = pwd

\* C18: a password change pushes the replaced hash onto the end of the
\* history, moves every entry one place further from the end and keeps the
\* last 5, and nothing else changes the history; a candidate that reaches the
\* reuse check is rejected iff it matches an entry of the history.  So a hash
\* is in the history, and its password rejected, at the 5 changes after its
\* push, and is gone, and its password accepted again, at the 6th
C18_HistoryWindow == [][C18_Step]_vars

\* Passw0rd!a was replaced on day 1 by b, then c, d, e and f followed, f was
\* kept on day 6, and on day 7 Passw0rd!a was accepted again
C18_Witness ==
    /\ last.op = "change_password" /\ last.action = "changed"
    /\ last.target = "Passw0rd!a"
    /\ now = 7 * DayMinutes
    /\ pwd.password = Hash("Passw0rd!a", 7 * DayMinutes)
    /\ Len(pwd.passwordHistory) = 5
    /\ pwd.passwordHistory[1] = [password |-> Hash("Passw0rd!c", 2 * DayMinutes),
                                  changedAt |-> 3 * DayMinutes]
    /\ pwd.passwordHistory[4].password.pw = "Passw0rd!f"
    /\ pwd.passwordHistory[5].password.pw = "Passw0rd!f"

\* the step answers a request that reached the password age check
AgeCheckedStep ==
    last'.op = "change_password" /\ last'.action \in {"too_soon", "reused", "changed"}

\* C19: a change is refused as too soon iff less than 24 hours have passed
\* since passwordChangedAt, and never when it is the account's first change
\* (no change has pushed onto the history yet)
C19_PasswordAge ==
    [][AgeCheckedStep =>
          ((last'.action = "too_soon") <=>
              /\ now - pwd.passwordChangedAt < 24 * HourMinutes
              /\ Len(pwd.passwordHistory) > 0)]_vars

----------------------------------------------------------------------------
(* Claims about the report queue *)

\* the reports of the last answer
Listed == {last.list[k] : k \in 1..Len(last.list)}

\* C20: the queue answered to a manager holds exactly the reports whose
\* post's tag is in the manager's managedTags (none when the manager has no
\* tags), the queue answered to an administrator holds every report
C20_QueueByTag ==
    (last.op = "list_reports" /\ last.status = 200) =>
       /\ users[last.actor].role = "manager" =>
             /\ Listed = {i \in 1..Len(reports) :
                             /\ PostExists(reports[i].post)
                             /\ posts[reports[i].post].postTag
                                   \in users[last.actor].managedTags}
             /\ users[last.actor].managedTags = {} => last.list = <<>>
       /\ users[last.actor].role = "administrator" => Listed = 1..Len(reports)
       /\ Len(last.list) = Cardinality(Listed)
       /\ users[last.actor].role \in {"manager", "administrator"}

\* jane_smith manages Travel only; of the reports on post1 (Food) and post3
\* (Travel) her queue holds the second
C20_Witness ==
    /\ last.op = "list_reports" /\ last.status = 200 /\ last.actor = "jane_smith"
    /\ users["jane_smith"].role = "manager"
    /\ users["jane_smith"].managedTags = {"Travel"}
    /\ posts["post1"].postTag = "Food"
    /\ Len(reports) = 2 /\ reports[1].post = "post1" /\ reports[2].post = "post3"
    /\ last.list = <<2>>

\* report i is in a status handle and escalate still act on
NonTerminal(i) == reports[i].status \in {"pending", "escalated"}

\* C21: in the queue every report in a non-terminal status (pending,
\* escalated) comes before every report in a terminal status (resolved,
\* dismissed), and within each of the two groups newer reports come first
C21_QueueOrder ==
    (last.op = "list_reports" /\ last.status = 200) =>
       \A a, b \in 1..Len(last.list) :
          a < b =>
             /\ ~(~NonTerminal(last.list[a]) /\ NonTerminal(last.list[b]))
             /\ (NonTerminal(last.list[a]) <=> NonTerminal(last.list[b]))
                   => last.list[a] > last.list[b]

----------------------------------------------------------------------------
(* Claims about login responses and the reset on success *)

\* C22: every failed POST /login is answered as a login with a username no
\* account has is: status 400, "Invalid username and/or password"
C22_GenericLoginFailure ==
    [][(last'.op = "login" /\ last'.action # "ok")
       => (last'.status = 400 /\ last'.error = "Invalid username and/or password")]_vars

\* the step completes a successful login
SucceededLoginStep == last'.op = "login" /\ last'.action = "ok"

\* C27: when a successful login completes, the account has
\* failedLoginAttempts = 0, no accountLockedUntil, and previousLogin is the
\* lastLogin it had before (so that runs of at most 4 failures, each ended by
\* a success, never lock the account)
C27_SuccessResets ==
    [][\A u \in UserIds :
         (SucceededLoginStep /\ last'.actor = u)
            => /\ cred'[u].failedLoginAttempts = 0
               /\ cred'[u].accountLockedUntil = Null
               /\ cred'[u].previousLogin = cred[u].lastLogin]_vars

----------------------------------------------------------------------------
(* Claims about the restrictions in effect *)

\* the severity of a restriction type
Severity(type) ==
    CASE type = "permanent_ban" -> 3
      [] type = "temporary_ban" -> 2
      [] type = "warning" -> 1
      [] OTHER -> 0

\* C24: the restriction the query surfaces is a most severe one of those in
\* effect for the account
C24_MostSevereSurfaced ==
    last.op = "activeRestriction" =>
       \A i \in 1..Len(restrictions) :
          (/\ restrictions[i].user = last.target
           /\ restrictions[i].isActive
           /\ (restrictions[i].endDate = Null \/ restrictions[i].endDate >= now))
          => Severity(last.action) >= Severity(restrictions[i].restrictionType)

\* C25: a restriction has endDate = null iff its type is permanent_ban
C25_NullEndIffPermanent ==
    \A i \in 1..Len(restrictions) :
        (restrictions[i].endDate = Null) <=>
            (restrictions[i].restrictionType = "permanent_ban")

----------------------------------------------------------------------------
(* Claims about the fields of a handled report *)

C30_Fields ==
    \A i \in 1..Len(reports) :
       /\ reports[i].status \in {"resolved", "dismissed"}
             => (reports[i].handledBy # "" /\ reports[i].resolvedAt # Null)
       /\ reports[i].status = "pending"
             => (reports[i].handledBy = "" /\ reports[i].resolvedAt = Null)

C30_Step ==
    \A i \in 1..Len(reports) :
       reports[i].status # "pending" => reports'[i].status # "pending"

\* C30: a resolved or dismissed report has handledBy and resolvedAt set, a
\* pending report has neither, and a report that is not pending never
\* becomes pending
C30_HandledFields == []C30_Fields /\ [][C30_Step]_vars

\* moderator_food dismissed the report on post1: it carries the handler
\* and the time of the resolution
C30_Witness ==
    /\ last.op = "handle" /\ last.status = 200 /\ last.action = "dismiss"
    /\ Len(reports) = 1 /\ reports[1].status = "dismissed"
    /\ reports[1].handledBy = "moderator_food" /\ reports[1].resolvedAt = now

----------------------------------------------------------------------------
(* Claims about validatePassword *)

\* the rules of the password policy a candidate violates
ViolatedRules(password) ==
    {r \in {"short", "long", "uppercase", "lowercase", "number", "special"} :
        \/ r = "short" /\ Len(password) < 8
        \/ r = "long" /\ Len(password) > 128
        \/ r = "uppercase" /\ ~\E i \in 1..Len(password) : password[i] \in Uppercase
        \/ r = "lowercase" /\ ~\E i \in 1..Len(password) : password[i] \in Lowercase
        \/ r = "number" /\ ~\E i \in 1..Len(password) : password[i] \in Numbers
        \/ r = "special" /\ ~\E i \in 1..Len(password) : password[i] \in SpecialCharacters}

\* the message of a rule
RuleMessage(r) ==
    CASE r = "short" -> "Password must be at least 8 characters long"
      [] r = "long" -> "Password must not exceed 128 characters"
      [] r = "uppercase" -> "Password must contain at least one uppercase letter"
      [] r = "lowercase" -> "Password must contain at least one lowercase letter"
      [] r = "number" -> "Password must contain at least one number"
      [] r = "special" -> "Password must contain at least one special character"

\* C28: validatePassword answers isValid = true iff the candidate has 8 to
\* 128 characters and an uppercase letter, a lowercase letter, a digit and a
\* special character; errors holds exactly one entry for every violated rule
C28_ValidatePassword ==
    last.op = "validatePassword" =>
       /\ (last.action = "valid") <=> (ViolatedRules(last.target) = {})
       /\ {last.list[k] : k \in 1..Len(last.list)}
             = {RuleMessage(r) : r \in ViolatedRules(last.target)}
       /\ Len(last.list) = Cardinality(ViolatedRules(last.target))

\* "~~~" (3 characters of no class) violates five rules at once and
\* all five are reported
C28_Witness ==
    /\ last.op = "validatePassword" /\ last.action = "invalid"
    /\ last.target = Pad("~", 3)
    /\ Len(last.list) = 5

----------------------------------------------------------------------------
(* Claims about roles and managed tags *)

\* C26: only accounts whose role is manager have a non-empty managedTags
C26_OnlyManagersHaveTags ==
    \A u \in UserIds :
        (users[u].exists /\ users[u].managedTags # {}) => users[u].role = "manager"

----------------------------------------------------------------------------
(* Claims about restrictions against accounts that do not exist *)

\* C29: a request that would issue a restriction against an account that
\* does not exist creates no Restriction and is answered 404
C29_NoRestrictionWithoutAccount ==
    [][Len(restrictions') > Len(restrictions)
         => UserExists(restrictions'[Len(restrictions')].user)]_vars

----------------------------------------------------------------------------
(* Claims about unban running concurrently with ban *)

\* the active restrictions of every account are the last ones issued to it:
\* no inactive restriction of the account comes after an active one
ActiveSuffix ==
    \A i, j \in 1..Len(restrictions) :
        (i < j /\ restrictions[i].user = restrictions[j].user /\ restrictions[i].isActive)
           => restrictions[j].isActive

\* when an unban completes, every restriction the account had when the
\* unban started is inactive
C23_Step ==
    (race.upc = "scan" /\ race'.upc = "idle") =>
        \A i \in 1..Len(restrictions') :
            (i <= race.uend /\ restrictions'[i].user = race.utarget)
               => ~restrictions'[i].isActive

\* C23: for an unban and a ban of the same account running concurrently the
\* ledger ends as after one of the serial orders: the restrictions issued
\* before the unban started are all inactive and the new one is either
\* active (unban first) or inactive (ban first); at no time is an earlier
\* restriction active while a later one of the account is inactive
C23_UnbanSerializable == []ActiveSuffix /\ [][C23_Step]_vars

\* john_doe had two bans; a third ban was created while the unban was
\* running and the unban, completing last, left it active
C23_Witness ==
    /\ last.op = "unban" /\ last.status = 200 /\ last.target = "john_doe"
    /\ race = NoRace
    /\ Len(restrictions) = 3
    /\ \A i \in 1..3 : restrictions[i].user = "john_doe"
    /\ ~restrictions[1].isActive /\ ~restrictions[2].isActive /\ restrictions[3].isActive

----------------------------------------------------------------------------
(* Claims about the lockout after its window *)

\* C40: the first failed login after a lockout window has expired (the
\* counter still at the threshold the lock was set at, the request loaded
\* after the expiry and not overlapping another write) does not lock the
\* account again
C40_NoRelockOnFirstFailure ==
    [][\A u \in UserIds :
         (/\ FailedLoginStep /\ last'.actor = u
          /\ \E p \in LoginProcs : /\ lpc[p] = "failed" /\ lpc'[p] = "idle"
                                    /\ luser[p].id = u /\ luser[p].doc = cred[u]
          /\ cred[u].accountLockedUntil # Null
          /\ cred[u].accountLockedUntil <= now
          /\ cred[u].failedLoginAttempts = LockThreshold)
         => ~isAccountLocked(cred'[u], now)]_vars

----------------------------------------------------------------------------
(* Claims about what a password may be changed to, and when *)

\* the step completes a successful change of the password, on either route
PasswordSetStep ==
    last'.op \in {"change_password", "reset_password"} /\ last'.action = "changed"

\* C37: a successful password change never sets the password that was in
\* use at the time of the change
C37_NotCurrentPassword ==
    [][PasswordSetStep => ~bcryptCompare(last'.target, pwd.password)]_vars

\* C38: two successful password changes of the account are at least 24 hours
\* apart, on the change-password route and on the reset route
C38_ChangesOneDayApart ==
    [][(PasswordSetStep /\ Len(pwd.passwordHistory) > 0)
         => now - pwd.passwordChangedAt >= MinPasswordAgeDays * DayMinutes]_vars

----------------------------------------------------------------------------
(* Claims about the agreement of the post authorizations *)

\* C39: for the account and the post of an evaluation, canEditOrDelete,
\* checkResourcePermission (actions edit and delete) and canAccessPost give
\* the same decision
C39_AuthorizationsAgree ==
    (authz.fn # "none" /\ UserExists(authz.actor) /\ PostExists(authz.post)) =>
       LET a == authz.actor
           p == authz.post
           d == canEditOrDelete(a, posts[p].user, p)
       IN /\ checkResourcePermission(a, p, "edit") = d
          /\ checkResourcePermission(a, p, "delete") = d
          /\ canAccessPost(a, p) = d

----------------------------------------------------------------------------
(* Claims about the tag authority over a report's status *)

\* C33: a request of a manager changes the status of a report only if the
\* tag of the reported post is in the manager's managedTags, on handle and
\* on escalate
C33_StatusByTagAuthority ==
    [][\A i \in 1..Len(reports) :
         (/\ reports'[i].status # reports[i].status
          /\ last'.op \in {"handle", "escalate"}
          /\ users[last'.actor].role = "manager")
         => posts[reports[i].post].postTag \in users[last'.actor].managedTags]_vars

----------------------------------------------------------------------------
(* Claims about the effect of handle on the post *)

\* C31: after a successful handle with hide_post the post is stored hidden,
\* after delete_post it is stored deleted, and in both cases the post record
\* still exists
C31_PostMutated ==
    [][(last'.op = "handle" /\ last'.status = 200) =>
         LET post == reports[last'.target].post IN
         /\ last'.action = "hide_post" => (posts'[post].exists /\ posts'[post].isHidden)
         /\ last'.action = "delete_post" => (posts'[post].exists /\ posts'[post].isDeleted)]_vars

----------------------------------------------------------------------------
(* Claims about what is never removed and never rewritten *)

\* the restriction r, lifted
Lifted(r) == [r EXCEPT !.isActive = FALSE]

C32_Step ==
    /\ Len(reports') >= Len(reports)
    /\ \A i \in 1..Len(reports) :
          /\ reports'[i].post = reports[i].post
          /\ reports'[i].reportedBy = reports[i].reportedBy
    /\ Len(activityLog') >= Len(activityLog)
    /\ \A i \in 1..Len(activityLog) : activityLog'[i] = activityLog[i]
    /\ Len(restrictions') >= Len(restrictions)
    /\ \A i \in 1..Len(restrictions) :
          \/ restrictions'[i] = restrictions[i]
          \/ restrictions[i].isActive /\ restrictions'[i] = Lifted(restrictions[i])
    /\ last'.op = "unban" =>
          \A i \in 1..Len(restrictions) :
              restrictions[i].user # last'.target => restrictions'[i] = restrictions[i]

\* C32: no step removes a report, a restriction or a log entry; the only
\* change to an existing restriction is isActive from true to false; an
\* unban changes no restriction of another account
C32_AppendOnly == [][C32_Step]_vars

\* john_doe and jane_smith were both banned and john_doe was unbanned: the
\* ban of john_doe is lifted, the ban of jane_smith is untouched
C32_Witness ==
    /\ last.op = "unban" /\ last.status = 200 /\ last.target = "john_doe"
    /\ Len(restrictions) = 2
    /\ \E i, j \in 1..2 :
          /\ restrictions[i].user = "john_doe" /\ ~restrictions[i].isActive
          /\ restrictions[j].user = "jane_smith" /\ restrictions[j].isActive

----------------------------------------------------------------------------
(* Claims about the posts reports refer to *)

\* C34: every report references a post record that exists
C34_ReportsReferencePosts ==
    \A i \in 1..Len(reports) : PostExists(reports[i].post)

----------------------------------------------------------------------------
(* Claims about handle requests on the same report *)

\* C36: the handle requests on one report apply at most one enforcement
\* effect: where handle is the only operation that issues restrictions and
\* records post moderations, there are never more of them than reports
C36_OneEffectPerReport ==
    Len(restrictions) + Cardinality(postModerations) <= Len(reports)

----------------------------------------------------------------------------
(* Claims about the enforcement of bans *)

\* a permanent_ban or temporary_ban of u is in effect at time t
Banned(u, t) ==
    \E i \in 1..Len(restrictions) :
        /\ InEffect(restrictions[i], u, t)
        /\ restrictions[i].restrictionType \in {"permanent_ban", "temporary_ban"}

\* C35: no login and no report of an account succeeds while a ban of the
\* account is in effect
C35_BanEnforced ==
    [][\A u \in UserIds :
         (/\ last'.actor = u
          /\ \/ last'.op = "login" /\ last'.action = "ok"
             \/ last'.op = "report" /\ last'.action = "created")
         => ~Banned(u, now)]_vars

====
